---- MODULE Spec2Model ----
(***************************************************************************)
(* Edge request pipeline of swarms-platform                                *)
(* (src/shared/utils/stack-middlewares/middlewares.ts): the rate limiter,  *)
(* the payload validator racing its timer, the session refresher and the   *)
(* fingerprint stage, chained in the order of the exported `middlewares`   *)
(* list, and the pure helpers getIpAddress and checkNestingDepth.          *)
(*                                                                         *)
(* Strings are sequences of tokens, so that split, trim, includes,         *)
(* startsWith and parseInt are computed and not assumed.                   *)
(***************************************************************************)
EXTENDS Integers, Sequences, FiniteSets, TLC

\* ------------------------------------------------------------------ bounds
\* number of requests one behaviour sends through the pipeline
MaxRequests == 3
\* last instant of the rate limiter's clock (seconds)
MaxNow == 90
\* last instant of the validator's clock (milliseconds)
MaxClock == 7500
\* step of the validator's clock
ClockStep == 2500
\* objects and references of the graphs handed to checkNestingDepth
MaxNodes == 5
MaxEdges == 5
MaxHeaderLen == 4
MaxSends == 2
MaxDeducts == 2
MaxPurchases == 3

\* ------------------------------------------------------- program constants
RATE_LIMIT == 300
RATE_WINDOW == 60
MAX_PAYLOAD_SIZE == 500000
MAX_FIELD_LENGTH == 1000
MAX_FORM_FIELDS == 10
REQUEST_TIMEOUT == 5000
MAX_NESTING_DEPTH == 3

\* ------------------------------------------------------------ string tools
\* s.includes(pat): pat occurs in s as a contiguous run
Includes(s, pat) ==
  \E i \in 0..(Len(s) - Len(pat)) :
     \A j \in 1..Len(pat) : s[i + j] = pat[j]

\* s.startsWith(pat)
StartsWith(s, pat) ==
  /\ Len(pat) <= Len(s)
  /\ \A j \in 1..Len(pat) : s[j] = pat[j]

\* s.split(',')[0]: everything before the first comma
FirstCommaToken(s) ==
  LET commas == {i \in 1..Len(s) : s[i] = ","}
  IN  IF commas = {} THEN s
      ELSE LET first == CHOOSE i \in commas : \A j \in commas : i <= j
           IN  SubSeq(s, 1, first - 1)

\* s.trim(): leading and trailing blanks removed
Trim(s) ==
  LET solid == {i \in 1..Len(s) : s[i] # " "}
  IN  IF solid = {} THEN <<>>
      ELSE LET lo == CHOOSE i \in solid : \A j \in solid : i <= j
               hi == CHOOSE i \in solid : \A j \in solid : j <= i
           IN  SubSeq(s, lo, hi)

Digits == {"0", "1", "2", "3", "4", "5", "6", "7", "8", "9"}

DigitValue(d) ==
  CASE d = "0" -> 0 [] d = "1" -> 1 [] d = "2" -> 2 [] d = "3" -> 3
    [] d = "4" -> 4 [] d = "5" -> 5 [] d = "6" -> 6 [] d = "7" -> 7
    [] d = "8" -> 8 [] d = "9" -> 9

RECURSIVE DigitsValue(_, _)
\* value of the leading run of digits of s, acc being the value read so far
DigitsValue(s, acc) ==
  IF s = <<>> \/ Head(s) \notin Digits THEN acc
  ELSE DigitsValue(Tail(s), acc * 10 + DigitValue(Head(s)))

\* parseInt(s, 10): blanks skipped, the leading digits read; without a
\* leading digit the result is NaN
ParseInt(s) ==
  LET t == Trim(s)
  IN  IF t = <<>> \/ Head(t) \notin Digits
      THEN [nan |-> TRUE, val |-> 0]
      ELSE [nan |-> FALSE, val |-> DigitsValue(t, 0)]

\* a > b of JavaScript for a parsed number a: NaN compares false
GreaterThan(a, b) == ~a.nan /\ a.val > b

\* ------------------------------------------------------------ getIpAddress
\* the headers are token sequences; an absent header is the empty sequence,
\* which is falsy like the empty string
\* x-real-ip consulted before x-forwarded-for
getIpAddressRealFirst(request) ==
  LET forwarded == request.xff
      realIp    == request.realIp
  IN  IF realIp # <<>>
      THEN IF realIp = <<"::1">> THEN <<"127.0.0.1">> ELSE realIp
      ELSE IF forwarded # <<>>
           THEN LET forwardedIp == Trim(FirstCommaToken(forwarded))
                IN  IF forwardedIp = <<"::1">> THEN <<"127.0.0.1">>
                    ELSE forwardedIp
           ELSE <<"127.0.0.1">>

getIpAddress(request) ==
  LET forwarded == request.xff
      realIp    == request.realIp
  IN  IF forwarded # <<>>
      THEN LET forwardedIp == Trim(FirstCommaToken(forwarded))
           IN  IF forwardedIp = <<"::1">> THEN <<"127.0.0.1">> ELSE forwardedIp
      ELSE IF realIp # <<>>
           THEN IF realIp = <<"::1">> THEN <<"127.0.0.1">> ELSE realIp
           ELSE <<"127.0.0.1">>

\* ------------------------------------------------------- checkNestingDepth
\* A value is an object of a heap (a node with the set of objects its
\* properties refer to, visited in the order of the node numbers) or the
\* primitive: null, a number, a string.
Primitive == 0

RECURSIVE checkNestingDepth(_, _, _, _)
RECURSIVE checkProperties(_, _, _, _)

\* the for..in loop of checkNestingDepth over the object-valued properties
\* `keys` of one object; the visited set is the one mutable set of the walk
checkProperties(heap, keys, depth, visited) ==
  IF keys = {} THEN [res |-> FALSE, visited |-> visited]
  ELSE LET key == CHOOSE k \in keys : \A l \in keys : k <= l
           r   == checkNestingDepth(heap, key, depth + 1, visited)
       IN  IF r.res THEN r
           ELSE checkProperties(heap, keys \ {key}, depth, r.visited)

\* the bound tested with >= instead of >
checkNestingDepthOffByOne(heap, obj, depth, visited) ==
  IF depth >= MAX_NESTING_DEPTH THEN [res |-> TRUE, visited |-> visited]
  ELSE IF obj = Primitive THEN [res |-> FALSE, visited |-> visited]
  ELSE IF obj \in visited THEN [res |-> TRUE, visited |-> visited]
  ELSE LET r == checkProperties(heap, heap[obj], depth, visited \cup {obj})
       IN  IF r.res THEN r
           ELSE [res |-> FALSE, visited |-> r.visited \ {obj}]

\* visited.delete(obj) left out: the set holds every object seen so far
checkNestingDepthNoDelete(heap, obj, depth, visited) ==
  IF depth > MAX_NESTING_DEPTH THEN [res |-> TRUE, visited |-> visited]
  ELSE IF obj = Primitive THEN [res |-> FALSE, visited |-> visited]
  ELSE IF obj \in visited THEN [res |-> TRUE, visited |-> visited]
  ELSE checkProperties(heap, heap[obj], depth, visited \cup {obj})

\* result and final contents of the visited set
checkNestingDepth(heap, obj, depth, visited) ==
  IF depth > MAX_NESTING_DEPTH THEN [res |-> TRUE, visited |-> visited]
  ELSE IF obj = Primitive THEN [res |-> FALSE, visited |-> visited]
  ELSE IF obj \in visited THEN [res |-> TRUE, visited |-> visited]
  ELSE LET r == checkProperties(heap, heap[obj], depth, visited \cup {obj})
       IN  IF r.res THEN r
           ELSE [res |-> FALSE, visited |-> r.visited \ {obj}]

\* ------------------------------------------------------------ request data
\* the object graph JSON.parse builds for a body: a chain of body.nest nested
\* objects below the top-level object, or a primitive top-level value
BodyHeap(body) == [n \in 1..(body.nest + 1) |-> IF n <= body.nest THEN {n + 1} ELSE {}]

BodyRoot(body) == IF body.top = "object" THEN 1 ELSE Primitive

\* emailRegex.test(s) for /^[^\s@]+@[^\s@]+\.[^\s@]+$/ over a sequence of
\* characters
EmailRegexTest(s) ==
  /\ \A i \in 1..Len(s) : s[i] # " "
  /\ \E at \in 2..Len(s) :
        /\ s[at] = "@"
        /\ \A i \in 1..Len(s) : s[i] = "@" => i = at
        /\ \E dot \in (at + 2)..(Len(s) - 1) : s[dot] = "."

\* !v of JavaScript for a field of the parsed body
Falsy(v) == v.type = "missing" \/ (v.type = "string" /\ v.len = 0)

\* the password bounds tested with <= and >=
JsonChecksOffByOne(body) ==
  IF body.size > MAX_PAYLOAD_SIZE THEN "Payload too large"
  ELSE IF body.syntax # "ok" THEN "Invalid JSON payload"
  ELSE IF checkNestingDepth(BodyHeap(body), BodyRoot(body), 0, {}).res
       THEN "Payload structure too complex"
  ELSE IF body.top = "null"
       THEN "Cannot read properties of null (reading 'email')"
  ELSE IF \/ body.top # "object"
          \/ Falsy(body.email) \/ Falsy(body.password)
          \/ body.email.type # "string" \/ body.password.type # "string"
       THEN "Invalid credentials format"
  ELSE IF ~EmailRegexTest(body.email.chars) THEN "Invalid email format"
  ELSE IF body.password.len <= 8 \/ body.password.len >= 100
       THEN "Invalid password length"
  ELSE "ok"

\* the checks of the JSON branch on the materialised text, in their order;
\* "ok" or the message of the error thrown
JsonChecks(body) ==
  IF body.size > MAX_PAYLOAD_SIZE THEN "Payload too large"
  ELSE IF body.syntax # "ok" THEN "Invalid JSON payload"
  ELSE IF checkNestingDepth(BodyHeap(body), BodyRoot(body), 0, {}).res
       THEN "Payload structure too complex"
  ELSE IF body.top = "null"
       THEN "Cannot read properties of null (reading 'email')"
  ELSE IF \/ body.top # "object"
          \/ Falsy(body.email) \/ Falsy(body.password)
          \/ body.email.type # "string" \/ body.password.type # "string"
       THEN "Invalid credentials format"
  ELSE IF ~EmailRegexTest(body.email.chars) THEN "Invalid email format"
  ELSE IF body.password.len < 8 \/ body.password.len > 100
       THEN "Invalid password length"
  ELSE "ok"

\* the denylist of the form branch
Denylist == {<<"script">>, <<"<">>, <<">">>, <<"${">>, <<"eval(">>}

\* the number of fields tested with >= instead of >
FormChecksOffByOne(body) ==
  IF body.syntax # "ok" THEN "Invalid form data"
  ELSE IF Len(body.fields) >= MAX_FORM_FIELDS THEN "Invalid form data"
  ELSE IF \E i \in 1..Len(body.fields) :
            LET value == body.fields[i]
            IN  /\ value.type = "string"
                /\ \/ value.len > MAX_FIELD_LENGTH
                   \/ \E d \in Denylist : Includes(value.text, d)
       THEN "Invalid form data"
  ELSE "ok"

\* the checks of the form branch on the parsed entries; every throw of the
\* inner try, a failure of formData() itself included, is rethrown as
\* 'Invalid form data'
FormChecks(body) ==
  IF body.syntax # "ok" THEN "Invalid form data"
  ELSE IF Len(body.fields) > MAX_FORM_FIELDS THEN "Invalid form data"
  ELSE IF \E i \in 1..Len(body.fields) :
            LET value == body.fields[i]
            IN  /\ value.type = "string"
                /\ \/ value.len > MAX_FIELD_LENGTH
                   \/ \E d \in Denylist : Includes(value.text, d)
       THEN "Invalid form data"
  ELSE "ok"

\* ------------------------------------------------------------------ inputs
Absent == <<>>

SIGNIN == <<"/signin", "/password_signin">>

\* headers that resolve to two client addresses
AddressHeaders ==
  { [xff |-> Absent, realIp |-> Absent],
    [xff |-> <<"::1", ",", " ", "10.0.0.5">>, realIp |-> Absent],
    [xff |-> <<" ", "203.0.113.7", ",", "10.0.0.5">>, realIp |-> <<"::1">>],
    [xff |-> Absent, realIp |-> <<"203.0.113.7">>] }

NoBody ==
  [size |-> 0, syntax |-> "bad", top |-> "object", nest |-> 0,
   email |-> [type |-> "missing", len |-> 0, chars |-> <<>>],
   password |-> [type |-> "missing", len |-> 0],
   fields |-> <<>>]

GoodEmail == [type |-> "string", len |-> 5, chars |-> <<"a", "@", "b", ".", "c">>]

\* {"email":"a@b.c","password":<8 characters>} with `nest` nested objects
GoodJson(nest) ==
  [NoBody EXCEPT !.size = 60, !.syntax = "ok", !.nest = nest, !.email = GoodEmail,
                 !.password = [type |-> "string", len |-> 8]]

CleanField == [type |-> "string", len |-> 999, text |-> <<"a">>]

JsonBodies ==
  { GoodJson(n) : n \in {0, MAX_NESTING_DEPTH, MAX_NESTING_DEPTH + 1} }
  \cup { [GoodJson(0) EXCEPT !.syntax = "bad"],
         [GoodJson(0) EXCEPT !.top = "null"],
         [GoodJson(0) EXCEPT !.size = MAX_PAYLOAD_SIZE + 1] }

\* one field of the valid body changed at a time
Passwords ==
  { [type |-> "string", len |-> n] : n \in {0, 7, 100, 101} }
  \cup { [type |-> "missing", len |-> 0], [type |-> "number", len |-> 0] }

Emails ==
  { [type |-> "missing", len |-> 0, chars |-> <<>>],
    [type |-> "number", len |-> 0, chars |-> <<>>],
    [type |-> "string", len |-> 0, chars |-> <<>>] }
  \cup { [type |-> "string", len |-> Len(c), chars |-> c] :
         c \in { <<"a", "b">>, <<"a", "@", "b">>, <<"a", " ", "@", "b", ".", "c">>,
                 <<"a", "@", "@", "b", ".", "c">>, <<"@", "b", ".", "c">>,
                 <<"a", "@", "b", ".">>, <<"a", "@", ".", "c">>,
                 <<"a", "@", "b", ".", "c", ".", "d">> } }

CredentialBodies ==
  { [GoodJson(0) EXCEPT !.password = p] : p \in Passwords }
  \cup { [GoodJson(0) EXCEPT !.email = e] : e \in Emails }
  \cup { [GoodJson(0) EXCEPT !.top = "number"] }

FormBodies ==
  { [NoBody EXCEPT !.size = 60, !.syntax = "ok", !.fields = <<CleanField>>],
    [NoBody EXCEPT !.size = MAX_PAYLOAD_SIZE + 1, !.syntax = "ok",
                   !.fields = <<CleanField>>],
    [NoBody EXCEPT !.size = 60, !.syntax = "ok",
                   !.fields = [i \in 1..(MAX_FORM_FIELDS + 1) |-> CleanField]] }

\* one field of a small form changed at a time
FieldValues ==
  { [CleanField EXCEPT !.len = MAX_FIELD_LENGTH],
    [CleanField EXCEPT !.len = MAX_FIELD_LENGTH + 1],
    [type |-> "file", len |-> MAX_FIELD_LENGTH + 1, text |-> <<"<", "script", ">">>] }
  \cup { [type |-> "string", len |-> 8, text |-> t] :
         t \in { <<"<", "script", ">">>, <<"a", "script">>, <<"<">>, <<"a", ">">>,
                 <<"${", "a", "}">>, <<"eval(", "a", ")">> } }

FieldBodies ==
  { [NoBody EXCEPT !.size = 60, !.syntax = "ok", !.fields = <<CleanField, v>>] :
    v \in FieldValues }
  \cup { [NoBody EXCEPT !.size = 60, !.syntax = "ok",
                        !.fields = [i \in 1..MAX_FORM_FIELDS |-> CleanField]],
         [NoBody EXCEPT !.size = 60, !.syntax = "bad", !.fields = <<CleanField>>] }

JSON_TYPE == <<"application/json">>
URLENCODED_TYPE == <<"application/x-www-form-urlencoded">>
MULTIPART_TYPE == <<"multipart/form-data">>

ContentLengths ==
  { Absent, <<"6", "0">>, <<"5", "0", "0", "0", "0", "0">>,
    <<"5", "0", "0", "0", "0", "1">>, <<"6", "0", "0", "0", "0", "0">> }

\* requests that exercise the rate limiter: no body, any method
RateRequests ==
  { [path |-> p, method |-> "GET", xff |-> h.xff, realIp |-> h.realIp,
     contentType |-> Absent, contentLength |-> Absent, body |-> NoBody] :
    p \in { <<"/api", "/chat">>,
            <<"/api", "/webhooks", "/stripe">>,
            <<"/v1", "/api", "/webhooks">>,
            <<"/api", "/trpc", "/explorer.getExplorerData">>,
            <<"/api", "/trpc", "/explorer.getOther">>,
            <<"/dashboard">>,
            <<"/signin", "/signup">>,
            <<"/auth", "/callback", "/google">> },
    h \in AddressHeaders }

\* requests that exercise the payload validator
ValidatorRequests ==
  { [path |-> SIGNIN, method |-> "GET", xff |-> Absent, realIp |-> Absent,
     contentType |-> JSON_TYPE, contentLength |-> Absent, body |-> NoBody],
    [path |-> SIGNIN, method |-> "POST", xff |-> Absent, realIp |-> Absent,
     contentType |-> <<"text/plain">>, contentLength |-> Absent,
     body |-> GoodJson(0)],
    [path |-> SIGNIN, method |-> "POST", xff |-> Absent, realIp |-> Absent,
     contentType |-> Absent, contentLength |-> Absent,
     body |-> GoodJson(0)],
    [path |-> <<"/signin", "/password_signin", "/x">>, method |-> "POST",
     xff |-> Absent, realIp |-> Absent,
     contentType |-> JSON_TYPE, contentLength |-> Absent,
     body |-> GoodJson(MAX_NESTING_DEPTH + 1)] }
  \cup
  { [path |-> SIGNIN, method |-> "POST", xff |-> Absent, realIp |-> Absent,
     contentType |-> ct, contentLength |-> cl, body |-> b] :
    ct \in {JSON_TYPE, <<"application/json", "; charset=utf-8">>},
    cl \in ContentLengths, b \in JsonBodies }
  \cup
  { [path |-> SIGNIN, method |-> "POST", xff |-> Absent, realIp |-> Absent,
     contentType |-> JSON_TYPE, contentLength |-> Absent, body |-> b] :
    b \in CredentialBodies }
  \cup
  { [path |-> SIGNIN, method |-> "POST", xff |-> Absent, realIp |-> Absent,
     contentType |-> MULTIPART_TYPE, contentLength |-> Absent, body |-> b] :
    b \in FieldBodies }
  \cup
  { [path |-> SIGNIN, method |-> "POST", xff |-> Absent, realIp |-> Absent,
     contentType |-> ct, contentLength |-> cl, body |-> b] :
    ct \in {URLENCODED_TYPE, MULTIPART_TYPE},
    cl \in ContentLengths, b \in FormBodies }

Requests == RateRequests \cup ValidatorRequests

\* the keys the counter store is asked about
StoreKeys == { getIpAddress(r) : r \in Requests }

\* ------------------------------------------------------------------- state
VARIABLES
  req,          \* the request in the pipeline
  sent,         \* requests sent so far
  pos,          \* index in `middlewares` of the running stage, one more for
                \* the terminal handler, 0 when the chain has returned
  pc,           \* where the running stage is
  trace,        \* stage entries, stage returns and collaborator calls
  response,     \* the value travelling back through the chain
  nextCalls,    \* calls of next, per stage
  refreshes,    \* calls of updateSession for this request
  sessionResult, \* what updateSession returned
  produced,     \* what the handler at the end of the chain returned
  now,          \* the counter store's clock
  hits,         \* the counter store: per key, admitted requests per instant
  arrivals,     \* per key and instant, the counted requests sent
  lastDecision, \* the rate limiter's last decision
  clock,        \* the validator's clock
  timer,        \* the setTimeout of the validator
  timerStart,   \* when it was set
  work,         \* the async validation function
  raceSettled,  \* Promise.race has settled
  firstSettled, \* which of the two promises settled first
  pvDecisions,  \* responses and calls of next made by the validator
  pvDecidedAt,  \* when the validator answered or called next
  bytesRead,    \* bytes of the body the validator has read
  bodyReads,    \* calls of text() and formData()
  bodyUsed,     \* the body of the request itself (not a clone) was consumed
  ipHeaders,    \* the two address headers of a request given to getIpAddress
  ipResult,     \* what getIpAddress returned for them
  chatState,    \* usePromptChat: the state React holds
  chatRender,   \* usePromptChat: the state the handlers of the last render see
  sends,        \* usePromptChat: the calls of handleSend and handleSendEdit
  deducts,      \* usePromptChat: the calls of deductCredit.mutateAsync
  purchase,     \* PurchaseModal: its state and the position of handlePurchase
  purchaseLog,  \* PurchaseModal: calls of its collaborators, in order
  parked,       \* the suspended invocation when two requests are in flight
  heap,         \* the object graph handed to checkNestingDepth
  depthResult   \* result of checkNestingDepth on it

chainVars ==
  <<req, sent, pos, pc, trace, response, nextCalls, refreshes, sessionResult,
    produced>>
rateVars == <<now, hits, arrivals, lastDecision>>
pvVars == <<clock, timer, timerStart, work, raceSettled, firstSettled,
            pvDecisions, pvDecidedAt, bytesRead, bodyReads, bodyUsed>>
depthVars == <<heap, depthResult>>
ipVars == <<ipHeaders, ipResult>>
\* the state outside the request pipeline
pairVars == <<parked>>
chatVars == <<chatState, chatRender, sends, deducts>>
purchaseVars == <<purchase, purchaseLog>>
uiVars == <<chatVars, purchaseVars>>
otherVars == <<depthVars, ipVars, pairVars, uiVars>>
vars == <<chainVars, rateVars, pvVars, otherVars>>

\* the session refresher listed before the payload validator
middlewaresSwapped ==
  << "withRateLimit", "withUpdateSession", "withSecurityChecks",
     "withFingerPrinting" >>

\* the exported list of stages
middlewares ==
  << "withRateLimit", "withSecurityChecks", "withUpdateSession",
     "withFingerPrinting" >>

\* the composed handler: stage i runs with stage i+1 as its next, the last
\* stage with the terminal handler
StageAt(i) == IF i \in 1..Len(middlewares) THEN middlewares[i] ELSE "terminal"

Running(stage) == pos >= 1 /\ StageAt(pos) = stage

\* a response on which cookies.set was not called
NoCookie ==
  [name |-> "", httpOnly |-> FALSE, sameSite |-> "", maxAge |-> 0, path |-> ""]

NoResponse == [kind |-> "none", status |-> 0, error |-> "", cookie |-> NoCookie]
Undefined == [kind |-> "undefined", status |-> 0, error |-> "", cookie |-> NoCookie]

JsonError(status, message) ==
  [kind |-> "NextResponse", status |-> status, error |-> message, cookie |-> NoCookie]

NoDecision ==
  [key |-> <<>>, counted |-> FALSE, earlier |-> 0, admitted |-> 0,
   outcome |-> "none", calls |-> 0, success |-> TRUE]

\* a stage calls next(request, event)
CallNext(stage) ==
  /\ pos' = pos + 1
  /\ pc' = "enter"
  /\ nextCalls' = [nextCalls EXCEPT ![stage] = @ + 1]
  /\ UNCHANGED response

\* a stage returns a response of its own without calling next
Respond(r) ==
  /\ response' = r
  /\ pos' = pos - 1
  /\ pc' = "return"
  /\ UNCHANGED nextCalls

StageIndex(stage) == CHOOSE i \in 1..Len(middlewares) : middlewares[i] = stage

\* ----------------------------------------------------------- counter store
\* the sliding-window limiter configured as slidingWindow(300, '60 s'): a log
\* of the admitted requests per key; a request is admitted when fewer than
\* RATE_LIMIT admitted requests lie less than RATE_WINDOW before it
RECURSIVE Sum(_, _)
Sum(f, S) ==
  IF S = {} THEN 0
  ELSE LET t == CHOOSE x \in S : TRUE IN f[t] + Sum(f, S \ {t})

InWindow(log, t) == {s \in DOMAIN log : s > t - RATE_WINDOW}

Count(log, t) == Sum(log, InWindow(log, t))

\* the log without its expired entries
Pruned(log, t) == [s \in InWindow(log, t) |-> log[s]]

\* the log with one more admitted request at instant t
Logged(log, t) ==
  [s \in InWindow(log, t) \cup {t} |->
     (IF s \in DOMAIN log THEN log[s] ELSE 0) + (IF s = t THEN 1 ELSE 0)]

\* ratelimit.limit(key) at instant t
Limit(log, t) ==
  LET success == Count(log, t) < RATE_LIMIT
  IN  [success |-> success,
       log |-> IF success THEN Logged(log, t) ELSE Pruned(log, t)]

\* ------------------------------------------------------------ withRateLimit
WEBHOOKS == <<"/api", "/webhooks">>
EXPLORER == <<"/api", "/trpc", "/explorer.getExplorerData">>
API == <<"/api">>

\* the protected prefix tested before the exemptions
withRateLimitApiFirst(pathname) ==
  IF Includes(pathname, API) THEN "limit" ELSE "next"

\* every path that is not exempt limited, with or without '/api'
withRateLimitEveryPath(pathname) ==
  IF Includes(pathname, WEBHOOKS) THEN "next"
  ELSE IF Includes(pathname, EXPLORER) THEN "next"
  ELSE "limit"

\* the part of withRateLimit before the store is asked: "next" or "limit"
withRateLimit(pathname) ==
  IF Includes(pathname, WEBHOOKS) THEN "next"
  ELSE IF Includes(pathname, EXPLORER) THEN "next"
  ELSE IF Includes(pathname, API) THEN "limit"
  ELSE "next"

\* the test of the store's answer inverted
RateLimitVerdictInverted(success) == IF success THEN "deny" ELSE "next"

\* the store's answer ignored
RateLimitVerdictIgnored(success) == "next"

\* the part after the store has answered: "deny" or "next"
RateLimitVerdict(success) == IF ~success THEN "deny" ELSE "next"

TooManyRequests == JsonError(429, "Too many requests")

\* the request is one the limiter counts: protected and not exempt
Counted(pathname) ==
  /\ Includes(pathname, API)
  /\ ~Includes(pathname, WEBHOOKS)
  /\ ~Includes(pathname, EXPLORER)

\* what the limiter's decision is recorded against: the counted requests of
\* the same key sent less than RATE_WINDOW earlier, and those admitted
Decision(outcome, calls, success) ==
  LET key == getIpAddress(req)
      win == InWindow(arrivals[key], now)
  IN  [key |-> key, counted |-> Counted(req.path),
       earlier  |-> Sum([t \in win |-> arrivals[key][t].sent], win),
       admitted |-> Sum([t \in win |-> arrivals[key][t].admitted], win),
       outcome |-> outcome, calls |-> calls, success |-> success]

\* arrivals with the request just decided added
Arrived(outcome) ==
  LET key == getIpAddress(req)
      old == arrivals[key]
      win == InWindow(old, now) \cup {now}
      was(t) == IF t \in DOMAIN old THEN old[t] ELSE [sent |-> 0, admitted |-> 0]
  IN  IF ~Counted(req.path) THEN arrivals
      ELSE [arrivals EXCEPT ![key] =
              [t \in win |->
                 IF t # now THEN was(t)
                 ELSE [sent |-> was(t).sent + 1,
                       admitted |-> was(t).admitted
                                    + (IF outcome = "next" THEN 1 ELSE 0)]]]

\* entry of the stage: exempt and unprotected paths go straight to next
RateLimitEnter ==
  /\ Running("withRateLimit") /\ pc = "enter"
  /\ trace' = Append(trace, "withRateLimit")
  /\ IF withRateLimit(req.path) = "limit"
     THEN /\ pc' = "limit"
          /\ UNCHANGED <<pos, response, nextCalls, arrivals, lastDecision>>
     ELSE /\ CallNext("withRateLimit")
          /\ lastDecision' = Decision("next", 0, TRUE)
          /\ arrivals' = Arrived("next")
  /\ UNCHANGED <<req, sent, produced, refreshes, sessionResult, now, hits, pvVars, otherVars>>

\* the store answers limit(ip)
RateLimitResume ==
  /\ Running("withRateLimit") /\ pc = "limit"
  /\ LET ip == getIpAddress(req)
         answer == Limit(hits[ip], now)
         verdict == RateLimitVerdict(answer.success)
     IN  /\ hits' = [hits EXCEPT ![ip] = answer.log]
         /\ trace' = Append(trace, "ratelimit.limit")
         /\ lastDecision' = Decision(verdict, 1, answer.success)
         /\ arrivals' = Arrived(verdict)
         /\ IF verdict = "deny"
            THEN Respond(TooManyRequests)
            ELSE CallNext("withRateLimit")
  /\ UNCHANGED <<req, sent, produced, refreshes, sessionResult, now, pvVars, otherVars>>

\* ------------------------------------------------------- withSecurityChecks
\* the content type not tested
SecurityGateAnyType(request) ==
  IF request.path # SIGNIN THEN "skip"
  ELSE IF request.method # "POST" THEN "skip"
  ELSE "race"

\* the path tested with startsWith instead of ===
SecurityGatePrefix(request) ==
  IF ~StartsWith(request.path, SIGNIN) THEN "skip"
  ELSE IF request.method # "POST" THEN "skip"
  ELSE IF /\ ~Includes(request.contentType, JSON_TYPE)
          /\ ~Includes(request.contentType, URLENCODED_TYPE)
          /\ ~Includes(request.contentType, MULTIPART_TYPE)
       THEN "415"
  ELSE "race"

\* the checks before the timer is set: "skip", "415" or "race"
SecurityGate(request) ==
  IF request.path # SIGNIN THEN "skip"
  ELSE IF request.method # "POST" THEN "skip"
  ELSE IF /\ ~Includes(request.contentType, JSON_TYPE)
          /\ ~Includes(request.contentType, URLENCODED_TYPE)
          /\ ~Includes(request.contentType, MULTIPART_TYPE)
       THEN "415"
  ELSE "race"

\* the declared size not checked before the read
WorkStartUnchecked(request) ==
  IF Includes(request.contentType, JSON_TYPE) THEN "text"
  ELSE IF \/ Includes(request.contentType, URLENCODED_TYPE)
          \/ Includes(request.contentType, MULTIPART_TYPE)
       THEN "formData"
  ELSE "ok"

\* the async validation function up to its first await: the error it throws,
\* the read it starts ("text" on a clone, "formData" on the request), or
\* "ok" when it has nothing to wait for
WorkStart(request) ==
  LET declared == IF request.contentLength = Absent THEN <<"0">>
                  ELSE request.contentLength
  IN  IF GreaterThan(ParseInt(declared), MAX_PAYLOAD_SIZE)
      THEN "Payload too large"
      ELSE IF Includes(request.contentType, JSON_TYPE) THEN "text"
      ELSE IF \/ Includes(request.contentType, URLENCODED_TYPE)
              \/ Includes(request.contentType, MULTIPART_TYPE)
           THEN "formData"
      ELSE "ok"

\* the rest of the validation function once the body has been read
WorkFinish(request) ==
  IF Includes(request.contentType, JSON_TYPE) THEN JsonChecks(request.body)
  ELSE FormChecks(request.body)

\* a timer of twice the delay
TimerDueLate(start) == start + 2 * REQUEST_TIMEOUT

\* setTimeout(..., REQUEST_TIMEOUT): the instant the timer set at `start` fires
TimerDue(start) == start + REQUEST_TIMEOUT

\* every settled promise acts, as with two independent handlers
DecidesAlways(settled) == TRUE

\* Promise.race: a promise decides the race only when no other has
Decides(settled) == ~settled

\* only the validator's own errors caught, any other rethrown
ValidationErrorRethrow(message) ==
  IF message \in
       { "Payload too large", "Invalid JSON payload",
         "Payload structure too complex", "Invalid credentials format",
         "Invalid email format", "Invalid password length",
         "Invalid form data", "Request timeout" }
  THEN [kind |-> "NextResponse",
        status |-> IF message = "Payload too large" THEN 413 ELSE 400,
        error |-> message, cookie |-> NoCookie]
  ELSE [kind |-> "exception", status |-> 0, error |-> message, cookie |-> NoCookie]

\* every error answered 400
ValidationErrorAlways400(message) ==
  LET errorMessage == IF message = "" THEN "Request processing failed"
                      ELSE message
  IN  [kind |-> "NextResponse", status |-> 400,
       error |-> errorMessage, cookie |-> NoCookie]

\* the catch of the race: the response for an error message
ValidationError(message) ==
  LET errorMessage == IF message = "" THEN "Request processing failed"
                      ELSE message
  IN  [kind |-> "NextResponse",
       status |-> IF errorMessage = "Payload too large" THEN 413 ELSE 400,
       error |-> errorMessage, cookie |-> NoCookie]

\* the validator answers with the response for an error
Reject(message) ==
  /\ response' = ValidationError(message)
  /\ pos' = StageIndex("withSecurityChecks") - 1
  /\ pc' = "return"
  /\ UNCHANGED nextCalls

\* the validator calls next
Accept ==
  /\ pos' = StageIndex("withSecurityChecks") + 1
  /\ pc' = "enter"
  /\ nextCalls' = [nextCalls EXCEPT !["withSecurityChecks"] = @ + 1]
  /\ UNCHANGED response

\* entry of the stage, up to the await of the race
SecurityEnter ==
  /\ Running("withSecurityChecks") /\ pc = "enter"
  /\ LET gate == SecurityGate(req)
         start == WorkStart(req)
     IN  \/ /\ gate = "skip"
            /\ CallNext("withSecurityChecks")
            /\ trace' = Append(trace, "withSecurityChecks")
            /\ pvDecisions' = pvDecisions + 1
            /\ UNCHANGED <<timer, timerStart, work, raceSettled, firstSettled,
                           pvDecidedAt, bodyReads, bodyUsed>>
         \/ /\ gate = "415"
            /\ Respond(JsonError(415, "Unsupported content type"))
            /\ trace' = Append(trace, "withSecurityChecks")
            /\ pvDecisions' = pvDecisions + 1
            /\ UNCHANGED <<timer, timerStart, work, raceSettled, firstSettled,
                           pvDecidedAt, bodyReads, bodyUsed>>
         \/ /\ gate = "race"
            /\ timer' = "armed"
            /\ timerStart' = clock
            /\ IF start \in {"text", "formData"}
               THEN /\ work' = "reading"
                    /\ bodyReads' = bodyReads + 1
                    /\ bodyUsed' = (start = "formData")
                    /\ pc' = "race"
                    /\ trace' = trace \o <<"withSecurityChecks", "setTimeout", start>>
                    /\ UNCHANGED <<pos, response, nextCalls, raceSettled,
                                   firstSettled, pvDecisions, pvDecidedAt>>
               ELSE /\ work' = IF start = "ok" THEN "resolved" ELSE "rejected"
                    /\ raceSettled' = TRUE
                    /\ firstSettled' = "work"
                    /\ pvDecisions' = pvDecisions + 1
                    /\ pvDecidedAt' = clock
                    /\ trace' = trace \o <<"withSecurityChecks", "setTimeout">>
                    /\ IF start = "ok" THEN Accept ELSE Reject(start)
                    /\ UNCHANGED <<bodyReads, bodyUsed>>
  /\ UNCHANGED <<req, sent, produced, refreshes, sessionResult, rateVars, clock, bytesRead, otherVars>>

\* text() or formData() completes and the validation function runs to its
\* end; its outcome counts only when the race is still open
ReadComplete ==
  /\ work = "reading"
  /\ LET result == WorkFinish(req)
     IN  /\ work' = IF result = "ok" THEN "resolved" ELSE "rejected"
         /\ bytesRead' = req.body.size
         /\ firstSettled' = IF firstSettled = "none" THEN "work" ELSE firstSettled
         /\ IF Decides(raceSettled)
            THEN /\ raceSettled' = TRUE
                 /\ pvDecisions' = pvDecisions + 1
                 /\ pvDecidedAt' = clock
                 /\ IF result = "ok" THEN Accept ELSE Reject(result)
            ELSE UNCHANGED <<raceSettled, pvDecisions, pvDecidedAt, pos, pc,
                             response, nextCalls>>
  /\ UNCHANGED <<req, sent, produced, trace, refreshes, sessionResult, rateVars, clock, timer,
                 timerStart, bodyReads, bodyUsed, otherVars>>

\* the message the validation function throws when the read itself fails:
\* the runtime's message from text(), the inner catch's from formData()
WorkFailure(request) ==
  IF Includes(request.contentType, JSON_TYPE) THEN "terminated"
  ELSE "Invalid form data"

\* text() or formData() rejects: the body stream broke
ReadFail ==
  /\ work = "reading"
  /\ work' = "failed"
  /\ firstSettled' = IF firstSettled = "none" THEN "work" ELSE firstSettled
  /\ IF Decides(raceSettled)
     THEN /\ raceSettled' = TRUE
          /\ pvDecisions' = pvDecisions + 1
          /\ pvDecidedAt' = clock
          /\ Reject(WorkFailure(req))
     ELSE UNCHANGED <<raceSettled, pvDecisions, pvDecidedAt, pos, pc,
                      response, nextCalls>>
  /\ UNCHANGED <<req, sent, produced, trace, refreshes, sessionResult, rateVars, clock, timer,
                 timerStart, bytesRead, bodyReads, bodyUsed, otherVars>>

\* the timer set by the validator fires REQUEST_TIMEOUT after it was set
TimerFire ==
  /\ timer = "armed"
  /\ clock = TimerDue(timerStart)
  /\ timer' = "fired"
  /\ firstSettled' = IF firstSettled = "none" THEN "timer" ELSE firstSettled
  /\ IF Decides(raceSettled)
     THEN /\ raceSettled' = TRUE
          /\ pvDecisions' = pvDecisions + 1
          /\ pvDecidedAt' = clock
          /\ Reject("Request timeout")
     ELSE UNCHANGED <<raceSettled, pvDecisions, pvDecidedAt, pos, pc,
                      response, nextCalls>>
  /\ UNCHANGED <<req, sent, produced, trace, refreshes, sessionResult, rateVars, clock, timerStart, work,
                 bytesRead, bodyReads, bodyUsed, otherVars>>

\* time passes for the validator; a timer fires when it is due
Tick ==
  /\ timer = "armed" \/ work = "reading"
  /\ clock < MaxClock
  /\ timer = "armed" => clock < TimerDue(timerStart)
  /\ LET due == TimerDue(timerStart)
         to  == clock + ClockStep
     IN  clock' = IF timer = "armed" /\ to > due THEN due ELSE to
  /\ UNCHANGED <<chainVars, rateVars, timer, timerStart, work, raceSettled,
                 firstSettled, pvDecisions, pvDecidedAt, bytesRead, bodyReads,
                 bodyUsed, otherVars>>

\* -------------------------------------------------------- withUpdateSession
\* entry of the stage: updateSession(req) is called and awaited
SessionEnter ==
  /\ Running("withUpdateSession") /\ pc = "enter"
  /\ pc' = "refresh"
  /\ trace' = trace \o <<"withUpdateSession", "updateSession">>
  /\ refreshes' = refreshes + 1
  /\ UNCHANGED sessionResult
  /\ UNCHANGED <<req, sent, produced, pos, response, nextCalls, rateVars, pvVars, otherVars>>

\* what updateSession may return: a response that continues or one that
\* redirects
SessionResults == {"response", "redirect"}

\* the result of updateSession returned when it is a redirect
withUpdateSessionInspect(result) ==
  IF result = "redirect" THEN "return" ELSE "next"

\* the part of withUpdateSession after the await: the result is dropped
withUpdateSession(result) == "next"

\* updateSession has completed and next is called
SessionResume ==
  /\ Running("withUpdateSession") /\ pc = "refresh"
  /\ \E result \in SessionResults :
        /\ sessionResult' = result
        /\ IF withUpdateSession(result) = "next"
           THEN CallNext("withUpdateSession")
           ELSE Respond([kind |-> "NextResponse", status |-> 307,
                         error |-> "", cookie |-> NoCookie])
  /\ UNCHANGED <<req, sent, produced, trace, refreshes, rateVars, pvVars, otherVars>>

\* ------------------------------------------------------- withFingerPrinting
SIGNUP == <<"/signin", "/signup">>
CALLBACK == <<"/auth", "/callback">>

\* the first test widened to every path below /signin
isSignupOrCallbackAnySignin(pathname) ==
  StartsWith(pathname, <<"/signin">>) \/ StartsWith(pathname, CALLBACK)

isSignupOrCallback(pathname) ==
  StartsWith(pathname, SIGNUP) \/ StartsWith(pathname, CALLBACK)

\* the cookie of res.cookies.set('sf_rsint', fingerprint, {...})
FingerprintCookie ==
  [name |-> "sf_rsint", httpOnly |-> FALSE, sameSite |-> "lax",
   maxAge |-> 60 * 60 * 24 * 30, path |-> "/"]

\* nothing returned for a value that is not a NextResponse
FingerPrintedDegrades(pathname, res) ==
  IF isSignupOrCallback(pathname) /\ res.kind = "NextResponse"
  THEN [res EXCEPT !.cookie = FingerprintCookie]
  ELSE Undefined

\* what the stage returns for the value `res` that next returned
FingerPrinted(pathname, res) ==
  IF isSignupOrCallback(pathname)
  THEN IF res.kind = "NextResponse"
       THEN [res EXCEPT !.cookie = FingerprintCookie]
       ELSE res
  ELSE Undefined

\* entry of the stage: next is called first
FingerPrintEnter ==
  /\ Running("withFingerPrinting") /\ pc = "enter"
  /\ CallNext("withFingerPrinting")
  /\ trace' = Append(trace, "withFingerPrinting")
  /\ UNCHANGED <<req, sent, produced, refreshes, sessionResult, rateVars, pvVars, otherVars>>

\* next has returned: the cookie is set on sign-up and callback paths
FingerPrintReturn ==
  /\ Running("withFingerPrinting") /\ pc = "return"
  /\ response' = FingerPrinted(req.path, response)
  /\ trace' = IF response'.cookie # NoCookie
              THEN trace \o <<"cookies.set", "withFingerPrinting:return">>
              ELSE Append(trace, "withFingerPrinting:return")
  /\ pos' = pos - 1
  /\ UNCHANGED <<req, sent, produced, pc, nextCalls, refreshes, sessionResult, rateVars, pvVars, otherVars>>

\* ----------------------------------------------------------------- the chain
\* the handler at the end of the chain answers
Terminal ==
  /\ pos = Len(middlewares) + 1 /\ pc = "enter"
  /\ \E kind \in {"NextResponse", "Response"} :
        response' = [kind |-> kind, status |-> 200, error |-> "", cookie |-> NoCookie]
  /\ produced' = response'
  /\ trace' = Append(trace, "terminal")
  /\ pos' = pos - 1
  /\ pc' = "return"
  /\ UNCHANGED <<req, sent, nextCalls, refreshes, sessionResult, rateVars, pvVars, otherVars>>

\* a stage that ends with `return next(request, event)` returns what next
\* returned
StageReturn ==
  /\ pos >= 1 /\ pc = "return"
  /\ StageAt(pos) \in {"withRateLimit", "withSecurityChecks", "withUpdateSession"}
  /\ trace' = Append(trace, StageAt(pos) \o ":return")
  /\ pos' = pos - 1
  /\ UNCHANGED <<req, sent, produced, pc, response, nextCalls, refreshes, sessionResult, rateVars,
                 pvVars, otherVars>>

NoRequest ==
  [path |-> <<>>, method |-> "GET", xff |-> Absent, realIp |-> Absent,
   contentType |-> Absent, contentLength |-> Absent, body |-> NoBody]

NoCalls == [stage \in {middlewares[i] : i \in 1..Len(middlewares)} |-> 0]

\* a request enters the composed handler once the one before has returned
Arrive(request) ==
  /\ pos = 0
  /\ sent < MaxRequests
  /\ req' = request
  /\ sent' = sent + 1
  /\ pos' = 1
  /\ pc' = "enter"
  /\ trace' = <<>>
  /\ response' = NoResponse
  /\ nextCalls' = NoCalls
  /\ refreshes' = 0
  /\ sessionResult' = "none"
  /\ produced' = NoResponse
  /\ lastDecision' = NoDecision
  /\ clock' = 0
  /\ timer' = "unset"
  /\ timerStart' = 0
  /\ work' = "none"
  /\ raceSettled' = FALSE
  /\ firstSettled' = "none"
  /\ pvDecisions' = 0
  /\ pvDecidedAt' = 0
  /\ bytesRead' = 0
  /\ bodyReads' = 0
  /\ bodyUsed' = FALSE
  /\ UNCHANGED <<now, hits, arrivals, otherVars>>

\* time passes for the counter store
AdvanceSteps == {RATE_WINDOW \div 2, RATE_WINDOW - 1}

AdvanceNow(d) ==
  /\ pos = 0 \/ pc = "limit"
  /\ now + d <= MaxNow
  /\ now' = now + d
  /\ UNCHANGED <<chainVars, hits, arrivals, lastDecision, pvVars, otherVars>>

\* the store is shared and outlives the pipeline: it starts empty or with a
\* key one request short of its limit
Preloads == {0, RATE_LIMIT - 1}

EmptyGraph == [n \in 1..MaxNodes |-> {}]

NoResult == [called |-> FALSE, obj |-> Primitive, res |-> FALSE, visited |-> {}]

InitChain ==
  /\ req = NoRequest
  /\ sent = 0
  /\ pos = 0
  /\ pc = "idle"
  /\ trace = <<>>
  /\ response = NoResponse
  /\ nextCalls = NoCalls
  /\ refreshes = 0
  /\ sessionResult = "none"
  /\ produced = NoResponse
  /\ lastDecision = NoDecision
  /\ clock = 0
  /\ timer = "unset"
  /\ timerStart = 0
  /\ work = "none"
  /\ raceSettled = FALSE
  /\ firstSettled = "none"
  /\ pvDecisions = 0
  /\ pvDecidedAt = 0
  /\ bytesRead = 0
  /\ bodyReads = 0
  /\ bodyUsed = FALSE

AbsentHeader == [present |-> FALSE, value |-> <<>>]

NoHeaders == [xff |-> AbsentHeader, realIp |-> AbsentHeader]

NoIp == [called |-> FALSE, ip |-> <<>>]

\* no nesting check and no address resolution under way
IdleDepth == heap = EmptyGraph /\ depthResult = NoResult

IdleIp == ipHeaders = NoHeaders /\ ipResult = NoIp

\* the state of an invocation of the chain that has just been called
Started(request) ==
  [req |-> request, pos |-> 1, pc |-> "enter", trace |-> <<>>,
   response |-> NoResponse, nextCalls |-> NoCalls, refreshes |-> 0,
   sessionResult |-> "none", produced |-> NoResponse,
   lastDecision |-> NoDecision, timer |-> "unset", timerStart |-> 0,
   work |-> "none", raceSettled |-> FALSE, firstSettled |-> "none",
   pvDecisions |-> 0, pvDecidedAt |-> 0, bytesRead |-> 0, bodyReads |-> 0,
   bodyUsed |-> FALSE]

NoContext == [Started(NoRequest) EXCEPT !.pos = 0, !.pc = "idle"]

IdlePair == parked = NoContext

\* usePromptChat as it is mounted: lines 18-32
ChatMounted(user) ==
  [user |-> user, input |-> FALSE, editInput |-> FALSE, isLoading |-> FALSE,
   isStreaming |-> FALSE, abortReader |-> 0, usedTokens |-> 0, messages |-> 0]

NoSend == [pc |-> "none", kind |-> "send", cancelled |-> FALSE, tokens |-> 0]

IdleChat ==
  /\ chatState = ChatMounted(FALSE)
  /\ chatRender = ChatMounted(FALSE)
  /\ sends = [i \in 1..MaxSends |-> NoSend]
  /\ deducts = <<>>

\* PurchaseModal as it is mounted: lines 339-342
\* what PurchaseModal is given: the wallet, the price of SOL, the item's
\* price in USD and the configuration
NoSetting ==
  [publicKey |-> FALSE, solPrice |-> FALSE, priceUsd |-> 0, solana |-> FALSE,
   rpcUrl |-> FALSE, platformWalletAddress |-> FALSE]

PurchaseMounted(setting) ==
  [isProcessing |-> FALSE, isSuccess |-> FALSE, pc |-> "idle", attempts |-> 0,
   last |-> "none", signature |-> 0, setting |-> setting]

IdlePurchase == purchase = PurchaseMounted(NoSetting) /\ purchaseLog = <<>>

IdleUi == IdleChat /\ IdlePurchase

\* no request in the pipeline and an empty store
IdlePipeline ==
  /\ InitChain
  /\ now = 0
  /\ hits = [k \in StoreKeys |-> [t \in {} |-> 0]]
  /\ arrivals = [k \in StoreKeys |-> [t \in {} |-> [sent |-> 0, admitted |-> 0]]]

Init ==
  /\ InitChain
  /\ now = 0
  /\ \E pre \in [StoreKeys -> Preloads] :
        /\ hits = [k \in StoreKeys |->
                     [t \in (IF pre[k] > 0 THEN {0} ELSE {}) |-> pre[k]]]
        /\ arrivals = [k \in StoreKeys |->
                         [t \in (IF pre[k] > 0 THEN {0} ELSE {}) |->
                            [sent |-> pre[k], admitted |-> pre[k]]]]
  /\ IdleDepth
  /\ IdleIp
  /\ IdlePair
  /\ IdleUi

\* the pipeline, one request after the other, within one rate window
Next ==
  \/ \E request \in Requests : Arrive(request)
  \/ RateLimitEnter
  \/ RateLimitResume
  \/ SecurityEnter
  \/ ReadComplete
  \/ ReadFail
  \/ TimerFire
  \/ Tick
  \/ SessionEnter
  \/ SessionResume
  \/ FingerPrintEnter
  \/ FingerPrintReturn
  \/ Terminal
  \/ StageReturn

Spec == Init /\ [][Next]_vars

\* the rate limiter over rolling windows: requests without a body, and time
\* passing for the counter store
NextRate ==
  \/ \E request \in RateRequests : Arrive(request)
  \/ \E d \in AdvanceSteps : AdvanceNow(d)
  \/ RateLimitEnter
  \/ RateLimitResume
  \/ SecurityEnter
  \/ SessionEnter
  \/ SessionResume
  \/ FingerPrintEnter
  \/ FingerPrintReturn
  \/ Terminal
  \/ StageReturn

SpecRate == Init /\ [][NextRate]_vars

\* ------------------------------------------- checkNestingDepth on any graph
Nodes == 1..MaxNodes

References(h) == {<<a, b>> \in Nodes \X Nodes : b \in h[a]}

\* a[key] = b: an object gets a property that refers to an object
AddProperty(a, b) ==
  /\ ~depthResult.called
  /\ b \notin heap[a]
  /\ Cardinality(References(heap)) < MaxEdges
  /\ heap' = [heap EXCEPT ![a] = @ \cup {b}]
  /\ UNCHANGED <<chainVars, rateVars, pvVars, depthResult, ipVars, pairVars, uiVars>>

\* checkNestingDepth(obj) with the default depth 0 and a fresh visited set
CheckDepth(obj) ==
  /\ ~depthResult.called
  /\ LET r == checkNestingDepth(heap, obj, 0, {})
     IN  depthResult' = [called |-> TRUE, obj |-> obj, res |-> r.res,
                         visited |-> r.visited]
  /\ UNCHANGED <<chainVars, rateVars, pvVars, heap, ipVars, pairVars, uiVars>>

InitDepth ==
  /\ IdlePipeline
  /\ IdleIp
  /\ IdlePair
  /\ IdleUi
  /\ heap = EmptyGraph
  /\ depthResult = NoResult

NextDepth ==
  \/ \E a \in Nodes, b \in Nodes : AddProperty(a, b)
  \/ \E obj \in {1, Primitive} : CheckDepth(obj)

SpecDepth == InitDepth /\ [][NextDepth]_vars

\* --------------------------------------------------- getIpAddress on its own
IpTokens == {"::1", "203.0.113.7", "10.0.0.5", ",", " "}

\* header values as Headers.get gives them: no blank at either end
HeaderValues ==
  { v \in UNION { [1..n -> IpTokens] : n \in 0..MaxHeaderLen } :
      v # <<>> => (v[1] # " " /\ v[Len(v)] # " ") }

ForwardedHeaders ==
  {AbsentHeader} \cup { [present |-> TRUE, value |-> v] : v \in HeaderValues }

RealIpHeaders ==
  {AbsentHeader} \cup
  { [present |-> TRUE, value |-> v] :
      v \in { <<>>, <<"::1">>, <<"203.0.113.7">>, <<"10.0.0.5">> } }

\* request.headers.get(name): null for a header that is absent
HeadersGet(header) == IF header.present THEN header.value ELSE Absent

\* getIpAddress(request) for the request that carries the headers
ResolveIp ==
  /\ ~ipResult.called
  /\ ipResult' =
        [called |-> TRUE,
         ip |-> getIpAddress([xff |-> HeadersGet(ipHeaders.xff),
                              realIp |-> HeadersGet(ipHeaders.realIp)])]
  /\ UNCHANGED <<chainVars, rateVars, pvVars, depthVars, ipHeaders, pairVars, uiVars>>

InitIp ==
  /\ IdlePipeline
  /\ IdleDepth
  /\ IdlePair
  /\ IdleUi
  /\ ipHeaders \in [xff : ForwardedHeaders, realIp : RealIpHeaders]
  /\ ipResult = NoIp

NextIp == ResolveIp

SpecIp == InitIp /\ [][NextIp]_vars

\* ------------------------------------------------- two requests in flight
\* The runtime runs one invocation at a time and may change to another one
\* where the running one awaits. The variables of the pipeline describe the
\* running invocation, `parked` the suspended one.
PairRequests ==
  { r \in RateRequests :
      /\ r.xff = Absent /\ r.realIp = Absent
      /\ r.path \in { <<"/api", "/chat">>, <<"/signin", "/signup">>,
                      <<"/dashboard">> } }
  \cup
  { [path |-> SIGNIN, method |-> "POST", xff |-> Absent, realIp |-> Absent,
     contentType |-> JSON_TYPE, contentLength |-> Absent, body |-> b] :
    b \in { GoodJson(0), GoodJson(MAX_NESTING_DEPTH + 1) } }
  \cup
  { [path |-> SIGNIN, method |-> "POST", xff |-> Absent, realIp |-> Absent,
     contentType |-> URLENCODED_TYPE, contentLength |-> Absent,
     body |-> [NoBody EXCEPT !.size = 60, !.syntax = "ok",
                             !.fields = <<CleanField>>]] }

\* the state of the running invocation
Context ==
  [req |-> req, pos |-> pos, pc |-> pc, trace |-> trace,
   response |-> response, nextCalls |-> nextCalls, refreshes |-> refreshes,
   sessionResult |-> sessionResult, produced |-> produced,
   lastDecision |-> lastDecision, timer |-> timer, timerStart |-> timerStart,
   work |-> work, raceSettled |-> raceSettled, firstSettled |-> firstSettled,
   pvDecisions |-> pvDecisions, pvDecidedAt |-> pvDecidedAt,
   bytesRead |-> bytesRead, bodyReads |-> bodyReads, bodyUsed |-> bodyUsed]

\* the running invocation is in the state c
RunningIs(c) ==
  /\ req = c.req
  /\ pos = c.pos
  /\ pc = c.pc
  /\ trace = c.trace
  /\ response = c.response
  /\ nextCalls = c.nextCalls
  /\ refreshes = c.refreshes
  /\ sessionResult = c.sessionResult
  /\ produced = c.produced
  /\ lastDecision = c.lastDecision
  /\ timer = c.timer
  /\ timerStart = c.timerStart
  /\ work = c.work
  /\ raceSettled = c.raceSettled
  /\ firstSettled = c.firstSettled
  /\ pvDecisions = c.pvDecisions
  /\ pvDecidedAt = c.pvDecidedAt
  /\ bytesRead = c.bytesRead
  /\ bodyReads = c.bodyReads
  /\ bodyUsed = c.bodyUsed

\* the race kept in a variable of the module, seen by every invocation
ResumedSharedRace(own, other) ==
  [own EXCEPT !.raceSettled = other.raceSettled]

\* what an invocation finds when it resumes: the request, the content type,
\* the race, its timer and the visited set are all local to the call
Resumed(own, other) == own

\* the running invocation awaits, or has returned
Suspended == pos = 0 \/ pc \in {"limit", "race", "refresh"}

\* the runtime goes on with the other invocation
Switch ==
  /\ Suspended
  /\ parked.pos # 0
  /\ parked' = Context
  /\ LET c == Resumed(parked, Context)
     IN  /\ req' = c.req
         /\ pos' = c.pos
         /\ pc' = c.pc
         /\ trace' = c.trace
         /\ response' = c.response
         /\ nextCalls' = c.nextCalls
         /\ refreshes' = c.refreshes
         /\ sessionResult' = c.sessionResult
         /\ produced' = c.produced
         /\ lastDecision' = c.lastDecision
         /\ timer' = c.timer
         /\ timerStart' = c.timerStart
         /\ work' = c.work
         /\ raceSettled' = c.raceSettled
         /\ firstSettled' = c.firstSettled
         /\ pvDecisions' = c.pvDecisions
         /\ pvDecidedAt' = c.pvDecidedAt
         /\ bytesRead' = c.bytesRead
         /\ bodyReads' = c.bodyReads
         /\ bodyUsed' = c.bodyUsed
  /\ UNCHANGED <<sent, now, hits, arrivals, clock, depthVars, ipVars, uiVars>>

\* the instants at which the timers of the two invocations fire
PairDues ==
  (IF timer = "armed" THEN {TimerDue(timerStart)} ELSE {})
  \cup (IF parked.timer = "armed" THEN {TimerDue(parked.timerStart)} ELSE {})

\* time passes while an invocation waits; no timer is passed over
TickPair ==
  /\ \/ timer = "armed" \/ work = "reading"
     \/ parked.timer = "armed" \/ parked.work = "reading"
  /\ clock < MaxClock
  /\ \A due \in PairDues : clock < due
  /\ LET to == clock + ClockStep
         stops == {to} \cup PairDues
     IN  clock' = CHOOSE t \in stops : \A u \in stops : t <= u
  /\ UNCHANGED <<chainVars, rateVars, timer, timerStart, work, raceSettled,
                 firstSettled, pvDecisions, pvDecidedAt, bytesRead, bodyReads,
                 bodyUsed, otherVars>>

InitPair ==
  /\ \E first \in PairRequests, second \in PairRequests :
        /\ RunningIs(Started(first))
        /\ parked = Started(second)
  /\ sent = 2
  /\ clock = 0
  /\ now = 0
  /\ \E pre \in Preloads :
        /\ hits = [k \in StoreKeys |->
                     [t \in (IF pre > 0 /\ k = <<"127.0.0.1">> THEN {0} ELSE {})
                        |-> pre]]
        /\ arrivals = [k \in StoreKeys |->
                         [t \in (IF pre > 0 /\ k = <<"127.0.0.1">> THEN {0}
                                 ELSE {}) |->
                            [sent |-> pre, admitted |-> pre]]]
  /\ IdleDepth
  /\ IdleIp
  /\ IdleUi

NextPair ==
  \/ Switch
  \/ RateLimitEnter
  \/ RateLimitResume
  \/ SecurityEnter
  \/ ReadComplete
  \/ ReadFail
  \/ TimerFire
  \/ TickPair
  \/ SessionEnter
  \/ SessionResume
  \/ FingerPrintEnter
  \/ FingerPrintReturn
  \/ Terminal
  \/ StageReturn

SpecPair == InitPair /\ [][NextPair]_vars

\* ------------------------------------------------------------ usePromptChat
\* A handler reads the state of the render that created it (chatRender); a
\* setter changes the state React holds (chatState), which the handlers see
\* from the next render on. A reader is named by the number of its send.

nonChatVars ==
  <<chainVars, rateVars, pvVars, depthVars, ipVars, pairVars, purchaseVars>>

\* the component renders again
Render ==
  /\ chatRender # chatState
  /\ chatRender' = chatState
  /\ UNCHANGED <<chatState, sends, deducts, nonChatVars>>

\* handleInputChange: the input typed, blank or not
handleInputChange(solid) ==
  /\ chatState.input # solid
  /\ chatState' = [chatState EXCEPT !.input = solid]
  /\ UNCHANGED <<chatRender, sends, deducts, nonChatVars>>

\* handleEditMessage: the text of an earlier message put into editInput
handleEditMessage ==
  /\ chatRender.messages > 0
  /\ ~chatState.editInput
  /\ chatState' = [chatState EXCEPT !.editInput = TRUE]
  /\ UNCHANGED <<chatRender, sends, deducts, nonChatVars>>

\* the first send not yet made
FreeSend == CHOOSE i \in 1..MaxSends :
              /\ sends[i].pc = "none"
              /\ \A j \in 1..(i - 1) : sends[j].pc # "none"

\* handleSend up to the await of fetch
handleSend ==
  /\ \E i \in 1..MaxSends : sends[i].pc = "none"
  /\ chatRender.user
  /\ chatRender.input /\ ~chatRender.isLoading
  /\ chatState' = [chatState EXCEPT !.isLoading = TRUE, !.isStreaming = TRUE,
                                    !.messages = @ + 2]
  /\ sends' = [sends EXCEPT ![FreeSend] = [NoSend EXCEPT !.pc = "fetch"]]
  /\ UNCHANGED <<chatRender, deducts, nonChatVars>>

\* handleSendEdit up to the await of fetch
handleSendEdit ==
  /\ \E i \in 1..MaxSends : sends[i].pc = "none"
  /\ chatRender.user
  /\ chatRender.editInput /\ ~chatRender.isLoading
  /\ chatState' = [chatState EXCEPT !.isLoading = TRUE, !.isStreaming = TRUE]
  /\ sends' = [sends EXCEPT ![FreeSend] =
                 [NoSend EXCEPT !.pc = "fetch", !.kind = "edit"]]
  /\ UNCHANGED <<chatRender, deducts, nonChatVars>>

\* the finally block of handleSend or handleSendEdit
Finally(state, kind) ==
  IF kind = "send"
  THEN [state EXCEPT !.isLoading = FALSE, !.isStreaming = FALSE,
                     !.abortReader = 0, !.input = FALSE]
  ELSE [state EXCEPT !.isLoading = FALSE, !.isStreaming = FALSE,
                     !.abortReader = 0, !.editInput = FALSE]

\* fetch fails, or answers with a status that is not ok
FetchFail(i) ==
  /\ sends[i].pc = "fetch"
  /\ sends' = [sends EXCEPT ![i].pc = "done"]
  /\ chatState' = Finally(chatState, sends[i].kind)
  /\ UNCHANGED <<chatRender, deducts, nonChatVars>>

\* fetch answers ok with the header X-Used-Tokens; the reader is stored
FetchOk(i, tokens) ==
  /\ sends[i].pc = "fetch"
  /\ sends' = [sends EXCEPT ![i].pc = "read", ![i].tokens = tokens]
  /\ chatState' = [chatState EXCEPT !.abortReader = i]
  /\ UNCHANGED <<chatRender, deducts, nonChatVars>>

\* reader.read() rejects
ReadError(i) ==
  /\ sends[i].pc = "read"
  /\ sends' = [sends EXCEPT ![i].pc = "done"]
  /\ chatState' = Finally(chatState, sends[i].kind)
  /\ UNCHANGED <<chatRender, deducts, nonChatVars>>

\* credits are deducted when the header gave a count
DeductsWhen(headerToken) == headerToken # 0

\* reader.read() answers done, at the end of the stream or after cancel():
\* the rest of the try block and the finally block
ReadDone(i) ==
  /\ sends[i].pc = "read"
  /\ LET headerToken == sends[i].tokens
     IN  /\ deducts' = IF DeductsWhen(headerToken)
                       THEN Append(deducts, [response |-> i, by |-> "send",
                                             streaming |-> TRUE,
                                             amount |-> headerToken])
                       ELSE deducts
         /\ chatState' = Finally([chatState EXCEPT !.usedTokens = headerToken],
                                 sends[i].kind)
  /\ sends' = [sends EXCEPT ![i].pc = "done"]
  /\ UNCHANGED <<chatRender, nonChatVars>>

\* handleStop
handleStop ==
  /\ Len(deducts) < MaxDeducts
  /\ chatRender.abortReader # 0
  /\ sends' = [sends EXCEPT ![chatRender.abortReader].cancelled = TRUE]
  /\ chatState' = [chatState EXCEPT !.isStreaming = FALSE, !.abortReader = 0]
  /\ deducts' = IF chatRender.usedTokens # 0
                THEN Append(deducts,
                            [response |-> chatRender.abortReader,
                             by |-> "stop",
                             streaming |->
                               sends[chatRender.abortReader].pc = "read",
                             amount |-> chatRender.usedTokens])
                ELSE deducts
  /\ UNCHANGED <<chatRender, nonChatVars>>

InitChat ==
  /\ IdlePipeline
  /\ IdleDepth
  /\ IdleIp
  /\ IdlePair
  /\ IdlePurchase
  /\ \E user \in BOOLEAN :
        /\ chatState = ChatMounted(user)
        /\ chatRender = ChatMounted(user)
  /\ sends = [i \in 1..MaxSends |-> NoSend]
  /\ deducts = <<>>

NextChat ==
  \/ Render
  \/ \E solid \in BOOLEAN : handleInputChange(solid)
  \/ handleEditMessage
  \/ handleSend
  \/ handleSendEdit
  \/ \E i \in 1..MaxSends : FetchFail(i)
  \/ \E i \in 1..MaxSends : \E tokens \in {0, i} : FetchOk(i, tokens)
  \/ \E i \in 1..MaxSends : ReadError(i)
  \/ \E i \in 1..MaxSends : ReadDone(i)
  \/ handleStop

SpecChat == InitChat /\ [][NextChat]_vars

\* ------------------------------------------------------------ PurchaseModal
nonPurchaseVars ==
  <<chainVars, rateVars, pvVars, depthVars, ipVars, pairVars, chatVars>>

Settings ==
  [publicKey : BOOLEAN, solPrice : BOOLEAN, priceUsd : {-1, 0, 5},
   solana : BOOLEAN, rpcUrl : BOOLEAN, platformWalletAddress : BOOLEAN]

\* an entry of the log for the present attempt
Event(name, signature) ==
  [event |-> name, attempt |-> purchase.attempts, signature |-> signature]

\* handlePurchase up to the await of executeTransactionWithRetry: where it
\* leaves
PurchaseStart(setting) ==
  IF ~setting.publicKey THEN "return:wallet"
  ELSE IF ~setting.solPrice THEN "return:solPrice"
  ELSE IF setting.priceUsd <= 0 THEN "return:price"
  ELSE IF ~setting.solana \/ ~setting.rpcUrl \/ ~setting.platformWalletAddress
       THEN "throw"
  ELSE "transaction"

\* the purchase button is shown and enabled
CanPurchase ==
  /\ purchase.pc = "idle"
  /\ ~purchase.isSuccess
  /\ ~purchase.isProcessing

\* handlePurchase up to its first await
handlePurchase ==
  /\ CanPurchase
  /\ purchase.attempts < MaxPurchases
  /\ LET start == PurchaseStart(purchase.setting)
         begun == [purchase EXCEPT !.attempts = @ + 1, !.last = start]
     IN  /\ purchase' =
               CASE start \in {"return:wallet", "return:solPrice"} -> begun
                 [] start = "return:price" ->
                      [begun EXCEPT !.isProcessing = TRUE]
                 [] start = "throw" -> [begun EXCEPT !.isProcessing = FALSE]
                 [] OTHER -> [begun EXCEPT !.isProcessing = TRUE, !.pc = "tx"]
         /\ purchaseLog' =
               Append(purchaseLog,
                      [event |-> IF start = "transaction"
                                 THEN "executeTransactionWithRetry" ELSE "toast",
                       attempt |-> purchase.attempts + 1, signature |-> 0])
  /\ UNCHANGED nonPurchaseVars

\* what executeTransactionWithRetry may answer for the present attempt: a
\* success with the signature of the transaction, or a failure
TransactionResults ==
  { [success |-> TRUE, signature |-> 10 + purchase.attempts],
    [success |-> FALSE, signature |-> 0] }

\* the result of the transaction not looked at
AfterTransactionUnchecked(result) == "record"

\* the test after the await: a failure is thrown
AfterTransaction(result) == IF ~result.success THEN "throw" ELSE "record"

\* executeTransactionWithRetry answers
TransactionDone(result) ==
  /\ purchase.pc = "tx"
  /\ IF AfterTransaction(result) = "throw"
     THEN /\ purchase' = [purchase EXCEPT !.pc = "idle", !.isProcessing = FALSE,
                                          !.last = "transaction failed"]
          /\ purchaseLog' = purchaseLog \o
                <<Event("transaction:failed", 0), Event("toast", 0)>>
     ELSE /\ purchase' = [purchase EXCEPT !.pc = "mutation",
                                          !.signature = result.signature]
          /\ purchaseLog' = purchaseLog \o
                << Event(IF result.success THEN "transaction:ok"
                         ELSE "transaction:failed", result.signature),
                   Event("createTransaction", result.signature) >>
  /\ UNCHANGED nonPurchaseVars

\* executeTransactionWithRetry rejects
TransactionThrows ==
  /\ purchase.pc = "tx"
  /\ purchase' = [purchase EXCEPT !.pc = "idle", !.isProcessing = FALSE,
                                  !.last = "transaction failed"]
  /\ purchaseLog' = purchaseLog \o
        <<Event("transaction:threw", 0), Event("toast", 0)>>
  /\ UNCHANGED nonPurchaseVars

\* the record mutation fails: onError, then the catch of handlePurchase
MutationError ==
  /\ purchase.pc = "mutation"
  /\ purchase' = [purchase EXCEPT !.pc = "idle", !.isProcessing = FALSE,
                                  !.last = "record failed"]
  /\ purchaseLog' = purchaseLog \o
        <<Event("record:failed", purchase.signature), Event("toast", 0)>>
  /\ UNCHANGED nonPurchaseVars

\* the record mutation succeeds: onSuccess starts and awaits the cache
MutationSuccess ==
  /\ purchase.pc = "mutation"
  /\ purchase' = [purchase EXCEPT !.pc = "onSuccess", !.last = "success"]
  /\ purchaseLog' = Append(purchaseLog, Event("record:ok", purchase.signature))
  /\ UNCHANGED nonPurchaseVars

\* the cache is refreshed, or fails to be, which onSuccess only logs; then
\* the toast, setIsSuccess(true) and the timer of 2000 ms
CacheSettled ==
  /\ purchase.pc = "onSuccess"
  /\ purchase' = [purchase EXCEPT !.pc = "timer", !.isSuccess = TRUE]
  /\ purchaseLog' = Append(purchaseLog, Event("isSuccess", purchase.signature))
  /\ UNCHANGED nonPurchaseVars

\* the timer fires: onPurchaseSuccess() and onClose()
SuccessTimer ==
  /\ purchase.pc = "timer"
  /\ purchase' = [purchase EXCEPT !.pc = "closed"]
  /\ purchaseLog' = purchaseLog \o
        << Event("onPurchaseSuccess", purchase.signature),
           Event("onClose", purchase.signature) >>
  /\ UNCHANGED nonPurchaseVars

\* the modal is opened again: the effect on isOpen clears isSuccess
Reopen ==
  /\ purchase.pc = "closed"
  /\ purchase.attempts < MaxPurchases
  /\ purchase' = [purchase EXCEPT !.pc = "idle", !.isSuccess = FALSE]
  /\ UNCHANGED <<purchaseLog, nonPurchaseVars>>

\* the wallet, the price or the configuration changes between attempts
SettingChanges(setting) ==
  /\ purchase.pc = "idle"
  /\ purchase.attempts \in 1..(MaxPurchases - 1)
  /\ purchase.setting # setting
  /\ purchase' = [purchase EXCEPT !.setting = setting]
  /\ UNCHANGED <<purchaseLog, nonPurchaseVars>>

InitPurchase ==
  /\ IdlePipeline
  /\ IdleDepth
  /\ IdleIp
  /\ IdlePair
  /\ IdleChat
  /\ \E setting \in Settings : purchase = PurchaseMounted(setting)
  /\ purchaseLog = <<>>

NextPurchase ==
  \/ handlePurchase
  \/ \E result \in TransactionResults : TransactionDone(result)
  \/ TransactionThrows
  \/ MutationError
  \/ MutationSuccess
  \/ CacheSettled
  \/ SuccessTimer
  \/ Reopen
  \/ \E setting \in Settings : SettingChanges(setting)

SpecPurchase == InitPurchase /\ [][NextPurchase]_vars

\* ================================================================== claims
Range(f) == {f[i] : i \in DOMAIN f}

Exempt(pathname) == Includes(pathname, WEBHOOKS) \/ Includes(pathname, EXPLORER)

PV == "withSecurityChecks"

\* the request is one the payload validator validates
Validated(request) ==
  /\ request.path = SIGNIN
  /\ request.method = "POST"
  /\ \/ Includes(request.contentType, JSON_TYPE)
     \/ Includes(request.contentType, URLENCODED_TYPE)
     \/ Includes(request.contentType, MULTIPART_TYPE)

\* C1: a counted request (path with '/api', not exempt) that has fewer than
\* 300 counted requests of its own key in the 60 units before it is admitted
\* (next is called); one that has 300 admitted requests of its key before it
\* in that window is denied with 429; other keys' requests do not count.
C1_WindowAdmission ==
  lastDecision.counted =>
     /\ lastDecision.earlier < 300 =>
           lastDecision.outcome = "next" /\ nextCalls["withRateLimit"] = 1
     /\ (lastDecision.earlier >= 300 /\ lastDecision.admitted >= 300) =>
           /\ lastDecision.outcome = "deny"
           /\ response.status = 429
           /\ nextCalls["withRateLimit"] = 0

\* the 301st request of a key is denied while another key, asked in the same
\* window, was admitted
C1_Witness ==
  /\ lastDecision.counted
  /\ lastDecision.earlier = 300
  /\ lastDecision.outcome = "deny"
  /\ \E k \in StoreKeys \ {lastDecision.key} :
        \E t \in InWindow(arrivals[k], now) :
           arrivals[k][t].sent = 1 /\ arrivals[k][t].admitted = 1

\* C2: a request whose path contains '/api/webhooks' or
\* '/api/trpc/explorer.getExplorerData' is never denied by the rate limiter:
\* the store is not asked and next is called.
C2_ExemptNeverDenied ==
  (Exempt(req.path) /\ lastDecision.outcome # "none") =>
     /\ lastDecision.outcome = "next"
     /\ lastDecision.calls = 0
     /\ nextCalls["withRateLimit"] = 1
     /\ response.status # 429

\* an exempt request passes while its key has used up its window
C2_Witness ==
  /\ Exempt(req.path)
  /\ nextCalls["withRateLimit"] = 1
  /\ Count(hits[getIpAddress(req)], now) >= RATE_LIMIT

\* C3: when the store reports the limit exceeded, the response is 429 with
\* the error 'Too many requests' and no later stage runs: next is not called,
\* no timer is set, no body read, no session refreshed, no cookie set.
C3_DenialShortCircuits ==
  (lastDecision.calls = 1 /\ ~lastDecision.success) =>
     /\ response = [kind |-> "NextResponse", status |-> 429,
                    error |-> "Too many requests", cookie |-> NoCookie]
     /\ \A stage \in DOMAIN nextCalls : nextCalls[stage] = 0
     /\ trace = <<"withRateLimit", "ratelimit.limit">>
     /\ pos = 0
     /\ timer = "unset" /\ bodyReads = 0 /\ refreshes = 0

C3_Witness ==
  /\ lastDecision.calls = 1
  /\ ~lastDecision.success
  /\ response.status = 429

\* the declared order of entries and effects, then the returns in reverse
C4_Order ==
  << "withRateLimit", "ratelimit.limit",
     "withSecurityChecks", "setTimeout", "read",
     "withUpdateSession", "updateSession",
     "withFingerPrinting", "terminal",
     "cookies.set", "withFingerPrinting:return", "withUpdateSession:return",
     "withSecurityChecks:return", "withRateLimit:return" >>

C4_Rank(event) ==
  LET e == IF event \in {"text", "formData"} THEN "read" ELSE event
  IN  CHOOSE i \in 1..Len(C4_Order) : C4_Order[i] = e

\* C4: within one request the stages are entered in the order RateLimiter,
\* PayloadValidator, SessionRefresher, FingerprintGenerator, each stage's
\* effect before next comes before the entry of the next stage, and the
\* stages return in the reverse order; the terminal handler runs only after
\* all four were entered.
C4_StageOrder ==
  /\ \A i, j \in DOMAIN trace :
        i < j => C4_Rank(trace[i]) < C4_Rank(trace[j])
  /\ "terminal" \in Range(trace) =>
        {"withRateLimit", "withSecurityChecks", "withUpdateSession",
         "updateSession", "withFingerPrinting"} \subseteq Range(trace)
  /\ ("terminal" \in Range(trace) /\ pos = 0) =>
        SubSeq(trace, Len(trace) - 3, Len(trace)) =
          << "withFingerPrinting:return", "withUpdateSession:return",
             "withSecurityChecks:return", "withRateLimit:return" >>

\* a validated request ran through the whole chain and back
C4_Witness ==
  /\ pos = 0
  /\ trace = << "withRateLimit", "withSecurityChecks", "setTimeout", "text",
                "withUpdateSession", "updateSession", "withFingerPrinting",
                "terminal", "withFingerPrinting:return",
                "withUpdateSession:return", "withSecurityChecks:return",
                "withRateLimit:return" >>

\* C5: the validator produces one outcome, that of the promise that settled
\* first: after the timer it answers 400 'Request timeout' and next is never
\* called, whatever the validation does later; after the validation it
\* calls next once or answers with the validation's error, and the timer
\* changes nothing.
C5_RaceOneOutcome ==
  /\ pvDecisions <= 1
  /\ nextCalls[PV] <= 1
  /\ firstSettled = "timer" =>
        /\ pvDecisions = 1
        /\ nextCalls[PV] = 0
        /\ response.status = 400 /\ response.error = "Request timeout"
  /\ (firstSettled = "work" /\ work = "resolved") =>
        /\ pvDecisions = 1
        /\ nextCalls[PV] = 1
        /\ response.status \notin {400, 413}
  /\ (firstSettled = "work" /\ work = "rejected") =>
        /\ pvDecisions = 1
        /\ nextCalls[PV] = 0
        /\ response.status \in {400, 413}
        /\ response.error # "Request timeout"

\* the timer won and the validation succeeded afterwards
C5_Witness ==
  /\ firstSettled = "timer"
  /\ work = "resolved"
  /\ nextCalls[PV] = 0
  /\ response.error = "Request timeout"

\* C6: once the timer is set the validator has answered or called next no
\* later than 5000 units afterwards, also when the body read never completes.
C6_ValidatorDeadline ==
  /\ pc = "race" => clock <= timerStart + 5000
  /\ (timer # "unset" /\ clock > timerStart + 5000) => pvDecisions = 1
  /\ (timer # "unset" /\ pvDecisions = 1) => pvDecidedAt <= timerStart + 5000

\* the body read is still pending after the deadline and the stage answered
C6_Witness ==
  /\ work = "reading"
  /\ clock > timerStart + 5000
  /\ pvDecisions = 1
  /\ pvDecidedAt = timerStart + 5000

\* C7: a validated request that declares a content-length above 500,000 is
\* answered 413 and neither text() nor formData() is called for it.
C7_OversizedUnread ==
  (Validated(req) /\ GreaterThan(ParseInt(req.contentLength), 500000)) =>
     /\ bodyReads = 0 /\ bytesRead = 0 /\ ~bodyUsed
     /\ work # "reading"
     /\ pvDecisions = 1 =>
           /\ response.status = 413
           /\ response.error = "Payload too large"
           /\ nextCalls[PV] = 0

C7_Witness ==
  /\ Validated(req)
  /\ req.contentLength = <<"6", "0", "0", "0", "0", "0">>
  /\ response.status = 413
  /\ bodyReads = 0

\* C8: the validator never reads more than MAX_PAYLOAD_SIZE bytes of a body.
C8_ReadBounded == bytesRead <= MAX_PAYLOAD_SIZE

\* C9: a JSON body with 4 levels of nested objects below its top-level
\* object is rejected with 400, one with 3 levels (and valid credentials) is
\* accepted, and checkNestingDepth reports a self-referential object.
C9_NestingBoundary ==
  /\ checkNestingDepth([n \in {1} |-> {1}], 1, 0, {}).res
  /\ ( /\ Validated(req) /\ Includes(req.contentType, JSON_TYPE)
       /\ firstSettled = "work" /\ work \in {"resolved", "rejected"}
       /\ req.body.syntax = "ok" /\ req.body.top = "object"
       /\ req.body.size <= MAX_PAYLOAD_SIZE
       /\ ~GreaterThan(ParseInt(req.contentLength), MAX_PAYLOAD_SIZE) ) =>
        /\ req.body.nest = 4 =>
              /\ response.status = 400
              /\ response.error = "Payload structure too complex"
              /\ nextCalls[PV] = 0
        /\ (req.body.nest = 3 /\ req.body = GoodJson(3)) => nextCalls[PV] = 1

C9_Witness ==
  /\ req.body.nest = 4
  /\ response.status = 400
  /\ response.error = "Payload structure too complex"

RECURSIVE C10_Revisits(_, _, _)
\* some path from n, continuing the path `path`, comes back to an object on it
C10_Revisits(h, n, path) ==
  \/ n \in path
  \/ \E c \in h[n] : C10_Revisits(h, c, path \cup {n})

RECURSIVE C10_Deeper(_, _, _)
\* some path of k references starts at n
C10_Deeper(h, n, k) ==
  \/ k = 0
  \/ \E c \in h[n] : C10_Deeper(h, c, k - 1)

\* C10: checkNestingDepth reports true only if some path from the root is
\* deeper than the bound or comes back to an object on the same path (so not
\* for an object shared by two branches), and when it reports false the
\* visited set is empty again.
C10_BranchScopedVisited ==
  depthResult.called =>
     /\ depthResult.res =>
           /\ depthResult.obj # Primitive
           /\ \/ C10_Deeper(heap, depthResult.obj, MAX_NESTING_DEPTH + 1)
              \/ C10_Revisits(heap, depthResult.obj, {})
     /\ ~depthResult.res => depthResult.visited = {}

\* an object shared by two sibling branches, no cycle, within the bound
C10_Witness ==
  /\ depthResult.called /\ depthResult.obj = 1 /\ ~depthResult.res
  /\ \E a, b, c \in Nodes \ {1} :
        /\ a # b /\ a # c /\ b # c
        /\ {a, b} \subseteq heap[1]
        /\ c \in heap[a] /\ c \in heap[b]

\* C11: a POST to /signin/password_signin whose content-type contains none
\* of application/json, application/x-www-form-urlencoded and
\* multipart/form-data is answered 415 'Unsupported content type'; no timer
\* is set, the body is not read and next is not called.
C11_UnsupportedType ==
  ( /\ req.path = <<"/signin", "/password_signin">>
    /\ req.method = "POST"
    /\ \A i \in DOMAIN req.contentType :
          req.contentType[i] \notin
            {"application/json", "application/x-www-form-urlencoded",
             "multipart/form-data"} ) =>
     /\ timer = "unset" /\ work = "none"
     /\ bodyReads = 0 /\ bytesRead = 0 /\ ~bodyUsed
     /\ nextCalls[PV] = 0
     /\ pvDecisions = 1 =>
           response = [kind |-> "NextResponse", status |-> 415,
                       error |-> "Unsupported content type", cookie |-> NoCookie]

C11_Witness ==
  /\ req.path = SIGNIN /\ req.method = "POST"
  /\ req.contentType = <<"text/plain">>
  /\ response.status = 415
  /\ pos = 0

\* C12: for a request whose path is not exactly /signin/password_signin or
\* whose method is not POST the validator sets no timer, reads nothing and
\* calls next, once, with the request as it came.
C12_OnlySigninPost ==
  (req.path # <<"/signin", "/password_signin">> \/ req.method # "POST") =>
     /\ timer = "unset" /\ work = "none"
     /\ bodyReads = 0 /\ bytesRead = 0 /\ ~bodyUsed
     /\ response.status \notin {400, 413, 415}
     /\ pvDecisions = 1 => nextCalls[PV] = 1

\* a POST below the sign-in path, with a body the validator would reject
C12_Witness ==
  /\ req.path = <<"/signin", "/password_signin", "/x">>
  /\ req.method = "POST"
  /\ req.body.nest = 4
  /\ nextCalls[PV] = 1
  /\ pos = 0

\* the local@domain.tld shape: one "@", no blank, something before the "@",
\* and after it a "." with something on both sides
C13_EmailShape(s) ==
  \E i, j \in DOMAIN s :
     /\ 1 < i /\ i + 1 < j /\ j < Len(s)
     /\ s[i] = "@" /\ s[j] = "."
     /\ \A k \in DOMAIN s \ {i} : s[k] # "@" /\ s[k] # " "

\* the conditions the claim lists for a JSON body
C13_Listed(body) ==
  /\ body.syntax = "ok"
  /\ body.nest <= 3
  /\ body.top = "object"
  /\ body.email.type = "string" /\ body.password.type = "string"
  /\ C13_EmailShape(body.email.chars)
  /\ body.password.len >= 8 /\ body.password.len <= 100

\* the JSON branch ran to its end before the timer
C13_JsonDecided ==
  /\ Validated(req) /\ Includes(req.contentType, JSON_TYPE)
  /\ firstSettled = "work" /\ work \in {"resolved", "rejected"}
  /\ bodyReads = 1

\* C13 as stated: in the JSON branch a body is accepted if and only if it
\* satisfies the listed conditions, and is rejected with 400 otherwise.
C13_AsStated ==
  C13_JsonDecided =>
     /\ nextCalls[PV] = 1 <=> C13_Listed(req.body)
     /\ nextCalls[PV] = 0 => response.status = 400

\* C13 amended: in the JSON branch a body is accepted if and only if its
\* text is at most 500,000 long and it parses, passes the nesting-depth
\* check, has string fields email and password, an email of the shape
\* local@domain.tld and a password of 8 to 100 characters; a longer text is
\* rejected with 413, every other rejection is a 400. The outcome is a
\* function of the body, so it is the same on every call.
C13_JsonAcceptance ==
  C13_JsonDecided =>
     /\ nextCalls[PV] = 1 <=>
           (req.body.size <= 500000 /\ C13_Listed(req.body))
     /\ nextCalls[PV] = 0 =>
           response.status = IF req.body.size > 500000 THEN 413 ELSE 400

\* a password of 100 characters was accepted
C13_Witness ==
  /\ C13_JsonDecided
  /\ req.body.password.len = 100
  /\ nextCalls[PV] = 1

C14_Denied == {"script", "<", ">", "${", "eval("}

\* the conditions the claim lists for a form
C14_Listed(body) ==
  /\ body.syntax = "ok"
  /\ Len(body.fields) <= 10
  /\ \A i \in DOMAIN body.fields :
        body.fields[i].type = "string" =>
           /\ body.fields[i].len <= 1000
           /\ \A k \in DOMAIN body.fields[i].text :
                 body.fields[i].text[k] \notin C14_Denied

\* the form branch ran to its end before the timer
C14_FormDecided ==
  /\ Validated(req) /\ ~Includes(req.contentType, JSON_TYPE)
  /\ firstSettled = "work" /\ work \in {"resolved", "rejected"}
  /\ bodyReads = 1

\* C14: in the form branch a request is accepted if and only if its body
\* parses into at most 10 entries and every string field is at most 1000
\* long and contains none of "script", "<", ">", "${", "eval("; otherwise
\* it is rejected with 400.
C14_FormAcceptance ==
  C14_FormDecided =>
     /\ nextCalls[PV] = 1 <=> C14_Listed(req.body)
     /\ nextCalls[PV] = 0 => response.status = 400

\* a form with a field holding <script> was rejected
C14_Witness ==
  /\ C14_FormDecided
  /\ \E i \in DOMAIN req.body.fields :
        req.body.fields[i].text = <<"<", "script", ">">>
        /\ req.body.fields[i].type = "string"
  /\ response.status = 400
  /\ nextCalls[PV] = 0

\* the validator rejected the request after it had set the timer
C15_RacedRejection ==
  timer # "unset" /\ pvDecisions = 1 /\ nextCalls[PV] = 0

\* C15: a rejection from the raced section is a JSON response whose status
\* is 413 exactly when its reason is 'Payload too large' and 400 for every
\* other reason, the timer's 'Request timeout' included, and whose error is
\* the reason.
C15_StatusMapping ==
  C15_RacedRejection =>
     /\ response.kind = "NextResponse"
     /\ response.status = 413 <=> response.error = "Payload too large"
     /\ response.status # 413 => response.status = 400
     /\ firstSettled = "timer" => response.error = "Request timeout"
     /\ (firstSettled = "work" /\ work = "rejected") =>
           response.error =
             IF bodyReads = 0 THEN WorkStart(req) ELSE WorkFinish(req)

\* the timer's rejection was answered 400
C15_Witness ==
  /\ C15_RacedRejection
  /\ firstSettled = "timer"
  /\ response.status = 400
  /\ response.error = "Request timeout"

\* C16: when the validator calls next, the body of the request it hands on
\* has not been consumed, in the JSON branch and in the form branch.
C16_BodyUnconsumed == nextCalls[PV] = 1 => ~bodyUsed

\* C17: no exception leaves the validator: for a validated request the
\* stage ends by calling next or by returning a JSON error response, whatever
\* the body, a failed read or parse, or the timer.
C17_NoEscape ==
  (Validated(req) /\ pvDecisions = 1) =>
     \/ nextCalls[PV] = 1 /\ response.kind # "exception"
     \/ /\ nextCalls[PV] = 0
        /\ response.kind = "NextResponse"
        /\ response.status \in {400, 413}
        /\ response.error # ""

\* the read of a JSON body failed and the stage answered 400
C17_Witness ==
  /\ Validated(req) /\ Includes(req.contentType, JSON_TYPE)
  /\ work = "failed"
  /\ firstSettled = "work"
  /\ response.kind = "NextResponse" /\ response.status = 400

\* the fixed reasons of the validator
C18_Reasons ==
  { "Unsupported content type", "Payload too large", "Invalid JSON payload",
    "Payload structure too complex", "Invalid credentials format",
    "Invalid email format", "Invalid password length", "Invalid form data",
    "Request timeout", "Request processing failed" }

\* C18: the error of every rejection of the validator is one of its fixed
\* reasons; no message of the runtime reaches the client, whatever the
\* top-level value of a JSON body that was read and parsed.
C18_FixedReasons ==
  (req.path = SIGNIN /\ req.method = "POST" /\ work # "failed"
     /\ pvDecisions = 1 /\ nextCalls[PV] = 0) =>
     response.error \in C18_Reasons

SR == "withUpdateSession"

\* C19: updateSession is called once for a request that reaches the session
\* stage and has completed before next is called; next is called whatever
\* it returned; it is not called for a request the rate limiter or the
\* payload validator rejected.
C19_SessionOnce ==
  /\ refreshes <= 1
  /\ SR \in Range(trace) <=> refreshes = 1
  /\ nextCalls[SR] <= 1
  /\ nextCalls[SR] = 1 <=> sessionResult # "none"
  /\ pc = "refresh" => (refreshes = 1 /\ nextCalls[SR] = 0)
  /\ sessionResult # "none" => response.status # 307
  /\ ( \/ lastDecision.outcome = "deny"
       \/ (pvDecisions = 1 /\ nextCalls[PV] = 0) ) =>
        refreshes = 0 /\ sessionResult = "none"

\* updateSession returned a redirect and the chain went on to the end
C19_Witness ==
  /\ sessionResult = "redirect"
  /\ refreshes = 1
  /\ nextCalls[SR] = 1
  /\ "terminal" \in Range(trace)
  /\ pos = 0

\* C20: the cookie sf_rsint is set only for a request whose path starts with
\* /signin/signup or /auth/callback; for any other path cookies.set is not
\* called, whatever the response.
C20_CookieOnlyOnPrefixes ==
  ("cookies.set" \in Range(trace) \/ response.cookie # NoCookie) =>
     \/ StartsWith(req.path, <<"/signin", "/signup">>)
     \/ StartsWith(req.path, <<"/auth", "/callback">>)

\* the cookie was set below /auth/callback
C20_Witness ==
  /\ response.cookie # NoCookie
  /\ "cookies.set" \in Range(trace)
  /\ req.path = <<"/auth", "/callback", "/google">>
  /\ pos = 0

\* the fingerprint stage has returned for the present request
FingerPrintReturned == "withFingerPrinting:return" \in Range(trace)

\* C21: on a path that starts with neither /signin/signup nor
\* /auth/callback the fingerprint stage returns the response that next
\* produced, so the chain's result is the terminal handler's response.
C21_PassThrough ==
  (FingerPrintReturned /\ ~isSignupOrCallback(req.path)) =>
     response = produced

\* the amended C22: on a sign-up or auth-callback path the stage returns the
\* value next returned; a NextResponse carries the cookie sf_rsint (not
\* HTTP-only, same-site lax, max-age 2592000, path /), any other value is
\* returned as it is, without a cookie.
C22_CookieOrUnchanged ==
  (FingerPrintReturned /\ isSignupOrCallback(req.path)) =>
     IF produced.kind = "NextResponse"
     THEN /\ response = [produced EXCEPT !.cookie = response.cookie]
          /\ response.cookie.name = "sf_rsint"
          /\ ~response.cookie.httpOnly
          /\ response.cookie.sameSite = "lax"
          /\ response.cookie.maxAge = 2592000
          /\ response.cookie.path = "/"
     ELSE response = produced /\ "cookies.set" \notin Range(trace)

\* C22 as stated: a value that is not of the expected type makes the stage
\* return nothing.
C22_AsStated ==
  (FingerPrintReturned /\ isSignupOrCallback(req.path)
     /\ produced.kind # "NextResponse") =>
     response = Undefined

\* a plain Response came back on the sign-up path and left the chain as it was
C22_Witness ==
  /\ FingerPrintReturned
  /\ req.path = <<"/signin", "/signup">>
  /\ produced.kind = "Response"
  /\ response = produced
  /\ pos = 0

Loopback(ip) == IF ip = <<"::1">> THEN <<"127.0.0.1">> ELSE ip

\* the amended C23: getIpAddress returns the trimmed first comma-separated
\* token of x-forwarded-for when that header is present and not empty, else
\* x-real-ip when present and not empty, else 127.0.0.1; '::1' from either
\* header becomes 127.0.0.1 and '::1' is never returned.
C23_Resolution ==
  ipResult.called =>
    LET xff    == ipHeaders.xff
        realIp == ipHeaders.realIp
    IN  /\ ipResult.ip =
             IF xff.present /\ xff.value # <<>>
             THEN Loopback(Trim(FirstCommaToken(xff.value)))
             ELSE IF realIp.present /\ realIp.value # <<>>
                  THEN Loopback(realIp.value)
                  ELSE <<"127.0.0.1">>
        /\ ipResult.ip # <<"::1">>
        /\ xff.value = <<"::1", ",", " ", "10.0.0.5">> =>
              ipResult.ip = <<"127.0.0.1">>
        /\ xff.value = <<"203.0.113.7", ",", " ", "10.0.0.5">> =>
              ipResult.ip = <<"203.0.113.7">>

\* C23 as stated: a header that is present decides, whatever its value.
C23_AsStated ==
  ipResult.called =>
    LET xff    == ipHeaders.xff
        realIp == ipHeaders.realIp
    IN  ipResult.ip =
          IF xff.present
          THEN Loopback(Trim(FirstCommaToken(xff.value)))
          ELSE IF realIp.present
               THEN Loopback(realIp.value)
               ELSE <<"127.0.0.1">>

\* the forwarded chain "::1, 10.0.0.5" resolved with another x-real-ip
C23_Witness ==
  /\ ipResult.called
  /\ ipHeaders.xff.value = <<"::1", ",", " ", "10.0.0.5">>
  /\ ipHeaders.realIp.value = <<"203.0.113.7">>
  /\ ipResult.ip = <<"127.0.0.1">>

\* one step of the limiter as C24 describes it
C24_Step ==
  LET ip == getIpAddress(req)
  IN  /\ hits' # hits =>
            /\ Counted(req.path)
            /\ pc = "limit" /\ lastDecision.outcome = "none"
            /\ \A k \in StoreKeys \ {ip} : hits'[k] = hits[k]
      /\ (lastDecision' # lastDecision /\ lastDecision'.outcome # "none") =>
            /\ req' = req
            /\ lastDecision.outcome = "none"
            /\ lastDecision'.key = ip
            /\ IF Counted(req.path)
               THEN /\ lastDecision'.calls = 1
                    /\ hits' = [hits EXCEPT ![ip] = Limit(hits[ip], now).log]
                    /\ lastDecision'.outcome =
                          IF Limit(hits[ip], now).success THEN "next" ELSE "deny"
                    /\ trace' = Append(trace, "ratelimit.limit")
               ELSE /\ lastDecision'.calls = 0
                    /\ hits' = hits
                    /\ lastDecision'.outcome = "next"
                    /\ "ratelimit.limit" \notin Range(trace')

\* C24: a request that is not exempt and whose path contains '/api' causes
\* one limit call on the store, under the key of its resolved address,
\* and the decision is the store's answer; an exempt request or one without
\* '/api' in its path causes no store call and leaves the store as it was.
C24_OneStoreCall == [][C24_Step]_vars

\* after a request that the limiter does not count, a counted request of
\* the address 203.0.113.7 is the first to use that key's quota
C24_Witness ==
  /\ sent = 2
  /\ lastDecision.counted /\ lastDecision.calls = 1
  /\ lastDecision.key = <<"203.0.113.7">>
  /\ lastDecision.earlier = 0
  /\ Count(hits[<<"203.0.113.7">>], now) = 1
  /\ hits[<<"127.0.0.1">>] = <<>>

\* the outcome of the invocation c follows from its own request, the order
\* in which its own timer and validation settled, what its own next
\* returned and the store's answer
C25_Own(c) ==
  LET gate    == SecurityGate(c.req)
      start   == WorkStart(c.req)
      verdict == IF c.firstSettled = "timer" THEN "Request timeout"
                 ELSE IF start \notin {"text", "formData"} THEN start
                 ELSE IF c.work = "failed" THEN WorkFailure(c.req)
                 ELSE WorkFinish(c.req)
  IN  /\ c.timer # "unset" => gate = "race"
      /\ c.firstSettled # "none" =>
            /\ c.pvDecisions = 1 /\ c.raceSettled
            /\ c.pvDecidedAt <= TimerDue(c.timerStart)
            /\ c.firstSettled = "timer" => c.pvDecidedAt = TimerDue(c.timerStart)
            /\ c.nextCalls[PV] = IF verdict = "ok" THEN 1 ELSE 0
      /\ (c.pos = 0 /\ c.trace # <<>>) =>
            c.response =
              IF c.lastDecision.outcome = "deny" THEN TooManyRequests
              ELSE IF gate = "415"
                   THEN JsonError(415, "Unsupported content type")
              ELSE IF gate = "race" /\ verdict # "ok"
                   THEN ValidationError(verdict)
              ELSE FingerPrinted(c.req.path, c.produced)

\* C25: with two requests in flight and the runtime changing from one to
\* the other wherever the running one awaits, each request's outcome is
\* that of its own request, its own race and its own next; only the store's
\* count passes from one request to the other.
C25_Isolated == C25_Own(Context) /\ C25_Own(parked)

\* a sign-in whose validator started while another sign-in was waiting for
\* its body: the first timed out, the second was accepted
C25_Witness ==
  /\ pos = 0 /\ parked.pos = 0
  /\ parked.firstSettled = "timer" /\ parked.timerStart = 0
  /\ parked.response.error = "Request timeout"
  /\ firstSettled = "work" /\ timerStart = ClockStep
  /\ nextCalls[PV] = 1
  /\ req = parked.req

\* the sends whose request or stream is under way
InFlight == {i \in 1..MaxSends : sends[i].pc \in {"fetch", "read"}}

\* C26: deductCredit is called at most once for a response, with that
\* response's own token count, however a handleStop during the streaming
\* interleaves with the send.
C26_DeductOnce ==
  \A i \in 1..MaxSends :
    LET mine == {k \in DOMAIN deducts :
                   deducts[k].response = i /\ deducts[k].streaming}
    IN  /\ Cardinality(mine) <= 1
        /\ \A k \in mine : deducts[k].amount = sends[i].tokens

\* C28: at most one call of handleSend or handleSendEdit is under way, also
\* when two calls come from the handlers of one render.
C28_OneInFlight == Cardinality(InFlight) <= 1

\* C27: once a purchase attempt that set isProcessing has ended without a
\* successful transaction (a price that is missing or not positive, a
\* missing wallet or configuration, a failed transaction, a failed record
\* mutation), isProcessing is false again and the buttons are usable.
C27_ProcessingReleased ==
  (purchase.pc = "idle" /\ purchase.last \in
      {"return:price", "throw", "transaction failed", "record failed"}) =>
     ~purchase.isProcessing

\* the entries of the log with the name `name`
Entries(name) == {k \in DOMAIN purchaseLog : purchaseLog[k].event = name}

\* C29: createTransaction is called only after the transaction of the same
\* attempt succeeded, with that transaction's signature, and never after a
\* failed one; isSuccess, onPurchaseSuccess and onClose come only after the
\* record mutation of the attempt succeeded.
C29_RecordAfterPayment ==
  /\ \A k \in Entries("createTransaction") :
        /\ k > 1
        /\ purchaseLog[k - 1].event = "transaction:ok"
        /\ purchaseLog[k - 1].attempt = purchaseLog[k].attempt
        /\ purchaseLog[k - 1].signature = purchaseLog[k].signature
        /\ purchaseLog[k].signature = 10 + purchaseLog[k].attempt
        /\ \A j \in Entries("transaction:failed")
                      \cup Entries("transaction:threw") :
              purchaseLog[j].attempt # purchaseLog[k].attempt
        /\ \A j \in Entries("createTransaction") :
              purchaseLog[j].attempt = purchaseLog[k].attempt => j = k
  /\ \A k \in Entries("isSuccess") \cup Entries("onPurchaseSuccess")
                \cup Entries("onClose") :
        \E j \in Entries("record:ok") :
          /\ j < k
          /\ purchaseLog[j].attempt = purchaseLog[k].attempt
          /\ \E i \in Entries("createTransaction") :
                i < j /\ purchaseLog[i].attempt = purchaseLog[j].attempt
  /\ purchase.isSuccess => purchase.last = "success"

\* a failed transaction, then an attempt that paid, was recorded and closed
\* the modal
C29_Witness ==
  /\ purchase.pc = "closed"
  /\ purchase.attempts = 2
  /\ Entries("transaction:failed") # {}
  /\ Entries("onClose") # {}
  /\ Cardinality(Entries("createTransaction")) = 1

====
